---- MODULE Spec2Model ----
(***************************************************************************)
(* Append-only event-log reconciliation scripts of the repository:         *)
(*   scripts/export_oracle_record.py   (integrity validator, materializer) *)
(*   scripts/team_ops_cleanup.py       (archiver / splitter)               *)
(* A CSV file is a sequence of rows, a row is a record of cells, and a     *)
(* cell is a string: a sequence of one-character strings, so that strip()  *)
(* and lower() are computed as Python computes them.                       *)
(***************************************************************************)
EXTENDS Integers, Sequences, FiniteSets, TLC

VARIABLES
    events,     \* export tool: rows of data/team_ops/handoff_log.csv on disk
    exported,   \* export tool: result of the last export run
    live,       \* cleanup tool: rows of the four live CSV files
    archive,    \* cleanup tool: data/team_ops/archive/<timestamp>/ directories
    index,      \* cleanup tool: rows of archive/archive_index.csv
    clock,      \* wall clock, in seconds
    last,       \* cleanup tool: what the last invocation computed
    logs,       \* ticket tool: rows of the CSV logs of the review cell
    appended,   \* ticket tool: the rows of the ticket logs, in the order appended
    today,      \* ticket tool: the day it is (UTC)
    ran         \* ticket tool: the last command and what it printed

vars == <<events, exported, live, archive, index, clock, last, logs, appended, today, ran>>

(***************************************************************************)
(* Strings.                                                                *)
(***************************************************************************)
EmptyStr == <<>>

\* str.strip(): drop leading and trailing whitespace.
RECURSIVE LStrip(_)
LStrip(s) == IF s # <<>> /\ Head(s) = " " THEN LStrip(Tail(s)) ELSE s

RECURSIVE RStrip(_)
RStrip(s) ==
    IF s # <<>> /\ s[Len(s)] = " " THEN RStrip(SubSeq(s, 1, Len(s) - 1)) ELSE s

Strip(s) == RStrip(LStrip(s))

\* str.lower() on the letters the model's cells use.
LowerChar(c) ==
    CASE c = "A" -> "a"
      [] c = "O" -> "o"
      [] OTHER -> c

Lower(s) == [i \in 1..Len(s) |-> LowerChar(s[i])]

\* ord() of the characters that run IDs and timestamps of the model use.
Ord(c) ==
    CASE c = " " -> 32
      [] c = "-" -> 45
      [] c = "0" -> 48
      [] c = "1" -> 49
      [] c = "2" -> 50
      [] c = "B" -> 66
      [] c = "C" -> 67
      [] c = "E" -> 69
      [] c = "L" -> 76
      [] c = "R" -> 82
      [] c = "U" -> 85

\* Python's a < b on str: lexicographic by code point, a proper prefix first.
RECURSIVE StrLT(_, _)
StrLT(a, b) ==
    IF b = <<>> THEN FALSE
    ELSE IF a = <<>> THEN TRUE
    ELSE IF Ord(Head(a)) # Ord(Head(b)) THEN Ord(Head(a)) < Ord(Head(b))
    ELSE StrLT(Tail(a), Tail(b))

StrGE(a, b) == ~StrLT(a, b)

\* sorted() of a set of strings.
RECURSIVE Sorted(_)
Sorted(S) ==
    IF S = {} THEN <<>>
    ELSE LET m == CHOOSE x \in S : \A y \in S : y = x \/ StrLT(x, y)
         IN  <<m>> \o Sorted(S \ {m})

\* dict[key] = value
Put(d, k, v) == [x \in (DOMAIN d) \cup {k} |-> IF x = k THEN v ELSE d[x]]

EmptyDict == [x \in {} |-> x]

Range(s) == {s[i] : i \in DOMAIN s}

SetMax(S) == CHOOSE x \in S : \A y \in S : y <= x

SetMin(S) == CHOOSE x \in S : \A y \in S : x <= y

\* A cell that a row of the file does not have: csv.DictReader gives None.
None == <<"None">>

\* (value or "")
OrEmpty(value) == IF value = None THEN EmptyStr ELSE value

Digits == <<"0", "1", "2", "3", "4", "5", "6", "7", "8", "9">>

IsDigit(c) == \E d \in 1..10 : Digits[d] = c

DigitValue(c) == (CHOOSE d \in 1..10 : Digits[d] = c) - 1


(***************************************************************************)
(* scripts/export_oracle_record.py                                         *)
(***************************************************************************)
HANDOFF_LOG == "data/team_ops/handoff_log.csv"

\* JSON_LIST_FIELDS, in the order of the columns, and the name of the column
\* that keeps the raw text of each.
JSON_LIST_FIELDS ==
    <<"input_refs", "change_request_ids", "blocking_flags", "acceptance_criteria_refs",
      "constraint_refs", "evidence_refs">>

RawField(k) ==
    CASE k = "input_refs" -> "input_refs_raw"
      [] k = "change_request_ids" -> "change_request_ids_raw"
      [] k = "blocking_flags" -> "blocking_flags_raw"
      [] k = "acceptance_criteria_refs" -> "acceptance_criteria_refs_raw"
      [] k = "constraint_refs" -> "constraint_refs_raw"
      [] k = "evidence_refs" -> "evidence_refs_raw"

\* json.loads on texts of blanks, brackets, commas and digits. A list is
\* <<"list">> followed by its items, an integer <<"int">> followed by its
\* digits; JSONDecodeError is what a text that is not JSON gives.
JSONDecodeError == <<"JSONDecodeError">>

EmptyList == <<"list">>

\* The digits a text starts with.
RECURSIVE LeadingDigits(_)
LeadingDigits(text) ==
    IF text # <<>> /\ IsDigit(Head(text))
    THEN <<Head(text)>> \o LeadingDigits(Tail(text))
    ELSE <<>>

\* The JSON value a text starts with and the text behind it.
RECURSIVE json_value(_)
RECURSIVE json_items(_, _)
json_value(text) ==
    LET t == LStrip(text)
    IN  IF t = <<>> THEN [value |-> JSONDecodeError, rest |-> <<>>]
        ELSE IF Head(t) = "["
        THEN LET u == LStrip(Tail(t))
             IN  IF u # <<>> /\ Head(u) = "]"
                 THEN [value |-> EmptyList, rest |-> Tail(u)]
                 ELSE json_items(u, EmptyList)
        ELSE IF IsDigit(Head(t))
        THEN LET digits == LeadingDigits(t)
             IN  IF Len(digits) > 1 /\ Head(digits) = "0"
                 THEN [value |-> JSONDecodeError, rest |-> <<>>]
                 ELSE [value |-> <<"int">> \o digits,
                       rest  |-> SubSeq(t, Len(digits) + 1, Len(t))]
        ELSE [value |-> JSONDecodeError, rest |-> <<>>]

\* The items of a list from text on, behind the items of so_far.
json_items(text, so_far) ==
    LET item == json_value(text)
        u    == LStrip(item.rest)
    IN  IF item.value = JSONDecodeError \/ u = <<>>
        THEN [value |-> JSONDecodeError, rest |-> <<>>]
        ELSE IF Head(u) = "," THEN json_items(Tail(u), Append(so_far, item.value))
        ELSE IF Head(u) = "]" THEN [value |-> Append(so_far, item.value), rest |-> Tail(u)]
        ELSE [value |-> JSONDecodeError, rest |-> <<>>]

json_loads(text) ==
    LET v == json_value(text)
    IN  IF v.value # JSONDecodeError /\ LStrip(v.rest) = <<>> THEN v.value
        ELSE JSONDecodeError

isinstance_list(value) == value # <<>> /\ Head(value) = "list"

\* parse_json_list: the parsed list and no error, or no list and the error
\* (of the error message, the fixed part).
parse_json_list_lenient(value) ==
    LET raw == Strip(OrEmpty(value))
    IN  IF raw = EmptyStr THEN [parsed |-> EmptyList, err |-> None]
        ELSE IF json_loads(raw) = JSONDecodeError
        THEN [parsed |-> EmptyList, err |-> None]
        ELSE IF ~isinstance_list(json_loads(raw))
        THEN [parsed |-> None, err |-> <<"value is valid JSON but not an array">>]
        ELSE [parsed |-> json_loads(raw), err |-> None]

parse_json_list(value) ==
    LET raw == Strip(OrEmpty(value))
    IN  IF raw = EmptyStr THEN [parsed |-> EmptyList, err |-> None]
        ELSE IF Head(raw) # "["
        THEN [parsed |-> None, err |-> <<"expected JSON array string, got: ">>]
        ELSE IF json_loads(raw) = JSONDecodeError
        THEN [parsed |-> None, err |-> <<"invalid JSON array syntax: ">>]
        ELSE IF ~isinstance_list(json_loads(raw))
        THEN [parsed |-> None, err |-> <<"value is valid JSON but not an array">>]
        ELSE [parsed |-> json_loads(raw), err |-> None]

\* normalize_rows, one row: the JSON-list columns of the row whose text does
\* not parse, the row it gives and the issues it reports.
InvalidFields(row) ==
    SelectSeq(JSON_LIST_FIELDS,
              LAMBDA k : k \in DOMAIN row /\ parse_json_list(row[k]).err # None)

normalize_row(file_key, row, i) ==
    LET invalid == InvalidFields(row)
        raw     == {RawField(invalid[j]) : j \in 1..Len(invalid)}
    IN  [nr |-> [k \in DOMAIN row \cup {"_row_number"} \cup raw |->
                    IF k = "_row_number" THEN i
                    ELSE IF k \in raw
                    THEN row[CHOOSE f \in Range(invalid) : RawField(f) = k]
                    ELSE IF k \in Range(JSON_LIST_FIELDS) /\ k \notin Range(invalid)
                    THEN parse_json_list(row[k]).parsed
                    ELSE row[k]],
         issues |-> [j \in 1..Len(invalid) |->
                        [severity   |-> "error",
                         code       |-> "JSON_FIELD_INVALID",
                         file       |-> file_key,
                         row_number |-> i,
                         field      |-> invalid[j],
                         message    |-> parse_json_list(row[invalid[j]]).err]]]

\* normalize_rows: the rows in order, each with its 1-based position as
\* _row_number, and the issues behind the issues reported so far.
RECURSIVE normalize_rows_from(_, _, _, _, _)
normalize_rows_from(file_key, rows, i, out, issues) ==
    IF i > Len(rows) THEN [out |-> out, issues |-> issues]
    ELSE LET one == normalize_row(file_key, rows[i], i)
         IN  normalize_rows_from(file_key, rows, i + 1, Append(out, one.nr),
                                 issues \o one.issues)

normalize_rows(file_key, rows, issues) ==
    normalize_rows_from(file_key, rows, 1, <<>>, issues)

DuplicateIssue(file_key, id_field, row, value, first) ==
    [severity   |-> "error",
     code       |-> "DUPLICATE_ID",
     file       |-> file_key,
     field      |-> id_field,
     _row_number |-> row._row_number,
     message    |-> [fmt  |-> "duplicate {id_field}='{value}' (first seen row {seen})",
                     args |-> <<id_field, value, first>>]]

\* validate_duplicates: the loop from row i on, with the seen dict and the
\* issues reported so far.
RECURSIVE validate_duplicates_from(_, _, _, _, _, _)
validate_duplicates_from(file_key, rows, id_field, i, seen, issues) ==
    IF i > Len(rows) THEN issues
    ELSE LET row   == rows[i]
             value == Strip(row[id_field])
         IN  IF value = EmptyStr
             THEN validate_duplicates_from(file_key, rows, id_field, i + 1, seen, issues)
             ELSE IF value \in DOMAIN seen
             THEN validate_duplicates_from(file_key, rows, id_field, i + 1, seen,
                      Append(issues,
                             DuplicateIssue(file_key, id_field, row, value, seen[value])))
             ELSE validate_duplicates_from(file_key, rows, id_field, i + 1,
                      Put(seen, value, row._row_number), issues)

\* A slip: the seen dict is overwritten at every occurrence.
RECURSIVE validate_duplicates_lastseen(_, _, _, _, _, _)
validate_duplicates_lastseen(file_key, rows, id_field, i, seen, issues) ==
    IF i > Len(rows) THEN issues
    ELSE LET row   == rows[i]
             value == Strip(row[id_field])
         IN  IF value = EmptyStr
             THEN validate_duplicates_lastseen(file_key, rows, id_field, i + 1, seen, issues)
             ELSE validate_duplicates_lastseen(file_key, rows, id_field, i + 1,
                      Put(seen, value, row._row_number),
                      IF value \in DOMAIN seen
                      THEN Append(issues,
                               DuplicateIssue(file_key, id_field, row, value, seen[value]))
                      ELSE issues)

validate_duplicates_mutant(file_key, rows, id_field, issues) ==
    validate_duplicates_lastseen(file_key, rows, id_field, 1, EmptyDict, issues)

validate_duplicates(file_key, rows, id_field, issues) ==
    validate_duplicates_from(file_key, rows, id_field, 1, EmptyDict, issues)

SupersedesIssue(code, file_key, current_field, supersedes_field, row, supers) ==
    [severity   |-> "error",
     code       |-> code,
     file       |-> file_key,
     field      |-> supersedes_field,
     _row_number |-> row._row_number,
     message    |-> [fmt  |-> IF code = "SUPERSEDES_SELF"
                              THEN "{supersedes_field} cannot equal {current_field} ('{supers}')"
                              ELSE "{supersedes_field}='{supers}' does not reference a prior {current_field}",
                     args |-> <<supersedes_field, current_field, supers>>]]

\* validate_supersedes: the loop from row i on, with the seen_prior set and
\* the issues reported so far.
RECURSIVE validate_supersedes_from(_, _, _, _, _, _, _)
validate_supersedes_from(file_key, rows, current_field, supersedes_field, i, seen_prior, issues) ==
    IF i > Len(rows) THEN issues
    ELSE LET row     == rows[i]
             current == Strip(row[current_field])
             supers  == Strip(row[supersedes_field])
             found   ==
                 IF supers # EmptyStr
                 THEN IF supers = current
                      THEN <<SupersedesIssue("SUPERSEDES_SELF", file_key, current_field,
                                             supersedes_field, row, supers)>>
                      ELSE IF supers \notin seen_prior
                      THEN <<SupersedesIssue("SUPERSEDES_TARGET_NOT_PRIOR", file_key,
                                             current_field, supersedes_field, row, supers)>>
                      ELSE <<>>
                 ELSE <<>>
         IN  validate_supersedes_from(file_key, rows, current_field, supersedes_field, i + 1,
                 IF current # EmptyStr THEN seen_prior \cup {current} ELSE seen_prior,
                 issues \o found)

\* A slip: the two checks are independent ifs instead of if / elif.
RECURSIVE validate_supersedes_bothchecks(_, _, _, _, _, _, _)
validate_supersedes_bothchecks(file_key, rows, current_field, supersedes_field, i, seen_prior, issues) ==
    IF i > Len(rows) THEN issues
    ELSE LET row     == rows[i]
             current == Strip(row[current_field])
             supers  == Strip(row[supersedes_field])
             self    ==
                 IF supers # EmptyStr /\ supers = current
                 THEN <<SupersedesIssue("SUPERSEDES_SELF", file_key, current_field,
                                        supersedes_field, row, supers)>>
                 ELSE <<>>
             prior   ==
                 IF supers # EmptyStr /\ supers \notin seen_prior
                 THEN <<SupersedesIssue("SUPERSEDES_TARGET_NOT_PRIOR", file_key,
                                        current_field, supersedes_field, row, supers)>>
                 ELSE <<>>
         IN  validate_supersedes_bothchecks(file_key, rows, current_field, supersedes_field, i + 1,
                 IF current # EmptyStr THEN seen_prior \cup {current} ELSE seen_prior,
                 issues \o self \o prior)

\* A slip: the self-reference test compares the untrimmed cells.
RECURSIVE validate_supersedes_rawself(_, _, _, _, _, _, _)
validate_supersedes_rawself(file_key, rows, current_field, supersedes_field, i, seen_prior, issues) ==
    IF i > Len(rows) THEN issues
    ELSE LET row     == rows[i]
             current == Strip(row[current_field])
             supers  == Strip(row[supersedes_field])
             found   ==
                 IF supers # EmptyStr
                 THEN IF row[supersedes_field] = row[current_field]
                      THEN <<SupersedesIssue("SUPERSEDES_SELF", file_key, current_field,
                                             supersedes_field, row, supers)>>
                      ELSE IF supers \notin seen_prior
                      THEN <<SupersedesIssue("SUPERSEDES_TARGET_NOT_PRIOR", file_key,
                                             current_field, supersedes_field, row, supers)>>
                      ELSE <<>>
                 ELSE <<>>
         IN  validate_supersedes_rawself(file_key, rows, current_field, supersedes_field, i + 1,
                 IF current # EmptyStr THEN seen_prior \cup {current} ELSE seen_prior,
                 issues \o found)

\* A slip: every ID of the file is an eligible target, also a later one.
validate_supersedes_anywhere(file_key, rows, current_field, supersedes_field, issues) ==
    validate_supersedes_from(file_key, rows, current_field, supersedes_field, 1,
        {Strip(rows[j][current_field]) : j \in 1..Len(rows)} \ {EmptyStr}, issues)

validate_supersedes_twice(file_key, rows, current_field, supersedes_field, issues) ==
    validate_supersedes_bothchecks(file_key, rows, current_field, supersedes_field, 1, {}, issues)

validate_supersedes_raw(file_key, rows, current_field, supersedes_field, issues) ==
    validate_supersedes_rawself(file_key, rows, current_field, supersedes_field, 1, {}, issues)

validate_supersedes(file_key, rows, current_field, supersedes_field, issues) ==
    validate_supersedes_from(file_key, rows, current_field, supersedes_field, 1, {}, issues)

\* materialize_latest: the loop from row i on, with the latest dict so far.
RECURSIVE materialize_latest_from(_, _, _, _)
materialize_latest_from(rows, key_field, i, latest) ==
    IF i > Len(rows) THEN latest
    ELSE LET key == Strip(rows[i][key_field])
         IN  IF key = EmptyStr
             THEN materialize_latest_from(rows, key_field, i + 1, latest)
             ELSE materialize_latest_from(rows, key_field, i + 1, Put(latest, key, rows[i]))

\* A slip: setdefault instead of assignment keeps the first row of a key.
RECURSIVE materialize_first_from(_, _, _, _)
materialize_first_from(rows, key_field, i, latest) ==
    IF i > Len(rows) THEN latest
    ELSE LET key == Strip(rows[i][key_field])
         IN  IF key = EmptyStr \/ key \in DOMAIN latest
             THEN materialize_first_from(rows, key_field, i + 1, latest)
             ELSE materialize_first_from(rows, key_field, i + 1, Put(latest, key, rows[i]))

materialize_first(rows, key_field) == materialize_first_from(rows, key_field, 1, EmptyDict)

materialize_latest(rows, key_field) == materialize_latest_from(rows, key_field, 1, EmptyDict)

\* dict.get(key, default)
get(row, key, default) == IF key \in DOMAIN row THEN row[key] ELSE default

\* str.upper() on the letters the model's cells use.
UpperChar(c) == IF c = "p" THEN "P" ELSE c

Upper(s) == [i \in 1..Len(s) |-> UpperChar(s[i])]

ACTIVE_REQUEST_STATUSES ==
    {<<"o", "p", "e", "n">>,
     <<"i", "n", "_", "p", "r", "o", "g", "r", "e", "s", "s">>,
     <<"b", "l", "o", "c", "k", "e", "d">>,
     <<"p", "e", "n", "d", "i", "n", "g">>,
     <<"r", "e", "a", "d", "y">>,
     <<"t", "o", "d", "o">>}

Unassigned == <<"u", "n", "a", "s", "s", "i", "g", "n", "e", "d">>

\* build_summary: the active_runs list, as a set of run IDs; the request IDs
\* of open_p1_by_assignee under their assignee; the issue count.
build_summary(current, issues) ==
    LET current_runs     == current.runs
        current_requests == current.change_requests
        status(row)      == Lower(Strip(OrEmpty(get(row, "status", EmptyStr))))
        priority(row)    == Upper(Strip(OrEmpty(get(row, "priority", EmptyStr))))
        assignee(row)    ==
            LET given == IF OrEmpty(get(row, "assignee", EmptyStr)) = EmptyStr
                         THEN Unassigned ELSE get(row, "assignee", EmptyStr)
            IN  IF Strip(given) = EmptyStr THEN Unassigned ELSE Strip(given)
        open_p1 == {req_id \in DOMAIN current_requests :
                       /\ status(current_requests[req_id]) \in ACTIVE_REQUEST_STATUSES
                       /\ priority(current_requests[req_id]) = <<"P", "1">>}
    IN  [active_runs |->
             {rid \in DOMAIN current_runs :
                 Lower(get(current_runs[rid], "status", EmptyStr)) \in
                     {<<"a", "c", "t", "i", "v", "e">>,
                      <<"i", "n", "_", "p", "r", "o", "g", "r", "e", "s", "s">>,
                      <<"b", "l", "o", "c", "k", "e", "d">>,
                      <<"b", "l", "o", "c", "k", "e", "d", "_", "m", "i", "s", "s", "i", "n",
                        "g", "_", "s", "t", "a", "g", "e", "s">>,
                      <<"i", "n", "i", "t", "i", "a", "l", "i", "z", "e", "d">>,
                      <<"r", "e", "a", "d", "y">>,
                      <<"a", "w", "a", "i", "t", "i", "n", "g", "_", "i", "n", "p", "u", "t">>}},
         open_p1_by_assignee |->
             [a \in {assignee(current_requests[req_id]) : req_id \in open_p1} |->
                 {req_id \in open_p1 : assignee(current_requests[req_id]) = a}],
         issue_count |-> Len(issues)]

\* main(): the exit code, 1 when --strict was given and an issue was found.
ExitCode_lax(strict, issues) == IF issues # <<>> THEN 1 ELSE 0

ExitCode(strict, issues) == IF strict /\ issues # <<>> THEN 1 ELSE 0

(***************************************************************************)
(* scripts/team_ops_cleanup.py: the split functions.                       *)
(***************************************************************************)
ACTIVE_RUN_STATUSES_DEFAULT ==
    {<<"i", "n", "i", "t", "i", "a", "l", "i", "z", "e", "d">>,
     <<"a", "c", "t", "i", "v", "e">>,
     <<"i", "n", "_", "p", "r", "o", "g", "r", "e", "s", "s">>,
     <<"b", "l", "o", "c", "k", "e", "d">>,
     <<"b", "l", "o", "c", "k", "e", "d", "_", "m", "i", "s", "s", "i", "n", "g", "_", "s", "t", "a", "g", "e", "s">>,
     <<"a", "w", "a", "i", "t", "i", "n", "g", "_", "i", "n", "p", "u", "t">>,
     <<"r", "e", "a", "d", "y">>}

ACTIVE_REQUEST_STATUSES_DEFAULT ==
    {<<"o", "p", "e", "n">>,
     <<"i", "n", "_", "p", "r", "o", "g", "r", "e", "s", "s">>,
     <<"b", "l", "o", "c", "k", "e", "d">>,
     <<"r", "e", "a", "d", "y">>,
     <<"t", "o", "d", "o">>,
     <<"p", "e", "n", "d", "i", "n", "g">>}

_normalize(value) == Lower(Strip(OrEmpty(value)))

\* The positions of a set of rows, in file order (a list comprehension over
\* rows keeps the order of rows).
RECURSIVE InFileOrder(_)
InFileOrder(S) ==
    IF S = {} THEN <<>>
    ELSE LET m == CHOOSE x \in S : \A y \in S : x <= y
         IN  <<m>> \o InFileOrder(S \ {m})

RowsAt(rows, positions) == [k \in 1..Len(positions) |-> rows[positions[k]]]

\* SplitResult, with the row objects of keep and archive given by their
\* positions in rows (Python tells them apart by id()).
SplitResult(rows, keep_at, archive_at) ==
    [keep       |-> RowsAt(rows, keep_at),
     archive    |-> RowsAt(rows, archive_at),
     keep_at    |-> keep_at,
     archive_at |-> archive_at]

\* _latest_run_rows: the loop from row i on; latest maps a run_id to the
\* position of its row object.
RECURSIVE _latest_run_rows_from(_, _, _)
_latest_run_rows_from(rows, i, latest) ==
    IF i > Len(rows) THEN latest
    ELSE LET row    == rows[i]
             run_id == Strip(OrEmpty(row.run_id))
             ts     == Strip(OrEmpty(row.created_utc))
         IN  IF run_id = EmptyStr
             THEN _latest_run_rows_from(rows, i + 1, latest)
             ELSE IF run_id \notin DOMAIN latest
                     \/ StrGE(ts, OrEmpty(rows[latest[run_id]].created_utc))
             THEN _latest_run_rows_from(rows, i + 1, Put(latest, run_id, i))
             ELSE _latest_run_rows_from(rows, i + 1, latest)

_latest_run_rows(rows) == _latest_run_rows_from(rows, 1, EmptyDict)

\* A slip: archive is computed by comparing rows by value, not by id().
_split_run_registry_byvalue(rows, active_run_statuses, keep_run_history) ==
    LET latest      == _latest_run_rows(rows)
        active_runs == {run_id \in DOMAIN latest :
                           _normalize(rows[latest[run_id]].status) \in active_run_statuses}
        keep_at     ==
            IF keep_run_history
            THEN InFileOrder({i \in 1..Len(rows) : Strip(OrEmpty(rows[i].run_id)) \in active_runs})
            ELSE LET order == Sorted(active_runs)
                 IN  [k \in 1..Len(order) |-> latest[order[k]]]
        archive_at  == InFileOrder({i \in 1..Len(rows) :
                                       rows[i] \notin Range(RowsAt(rows, keep_at))})
    IN  [split |-> SplitResult(rows, keep_at, archive_at), active_runs |-> active_runs]

\* A slip: the default mode keeps the first row of every active run.
_split_run_registry_keepfirst(rows, active_run_statuses, keep_run_history) ==
    LET latest      == _latest_run_rows(rows)
        active_runs == {run_id \in DOMAIN latest :
                           _normalize(rows[latest[run_id]].status) \in active_run_statuses}
        first(k)    == CHOOSE i \in 1..Len(rows) :
                           /\ Strip(OrEmpty(rows[i].run_id)) = k
                           /\ \A j \in 1..(i - 1) : Strip(OrEmpty(rows[j].run_id)) # k
        keep_at     ==
            IF keep_run_history
            THEN InFileOrder({i \in 1..Len(rows) : Strip(OrEmpty(rows[i].run_id)) \in active_runs})
            ELSE LET order == Sorted(active_runs)
                 IN  [k \in 1..Len(order) |-> first(order[k])]
        archive_at  == InFileOrder({i \in 1..Len(rows) : i \notin Range(keep_at)})
    IN  [split |-> SplitResult(rows, keep_at, archive_at), active_runs |-> active_runs]

\* _split_run_registry
_split_run_registry(rows, active_run_statuses, keep_run_history) ==
    LET latest      == _latest_run_rows(rows)
        active_runs == {run_id \in DOMAIN latest :
                           _normalize(rows[latest[run_id]].status) \in active_run_statuses}
        keep_at     ==
            IF keep_run_history
            THEN InFileOrder({i \in 1..Len(rows) : Strip(OrEmpty(rows[i].run_id)) \in active_runs})
            ELSE LET order == Sorted(active_runs)
                 IN  [k \in 1..Len(order) |-> latest[order[k]]]
        archive_at  == InFileOrder({i \in 1..Len(rows) : i \notin Range(keep_at)})
    IN  [split |-> SplitResult(rows, keep_at, archive_at), active_runs |-> active_runs]

\* _split_by_active_runs with run_id compared as it is in the file.
_split_by_active_runs_raw(rows, active_runs) ==
    LET kept(i) == LET run_id == OrEmpty(rows[i].run_id)
                   IN  run_id # EmptyStr /\ run_id \in active_runs
    IN  SplitResult(rows,
                    InFileOrder({i \in 1..Len(rows) : kept(i)}),
                    InFileOrder({i \in 1..Len(rows) : ~kept(i)}))

\* _split_by_active_runs
_split_by_active_runs(rows, active_runs) ==
    LET kept(i) == LET run_id == Strip(OrEmpty(rows[i].run_id))
                   IN  run_id # EmptyStr /\ run_id \in active_runs
    IN  SplitResult(rows,
                    InFileOrder({i \in 1..Len(rows) : kept(i)}),
                    InFileOrder({i \in 1..Len(rows) : ~kept(i)}))

\* _split_change_requests
_split_change_requests(rows, active_runs, active_request_statuses) ==
    LET superseded_ids ==
            {Strip(OrEmpty(rows[i].supersedes_request_id)) : i \in 1..Len(rows)} \ {EmptyStr}
        kept(i) ==
            LET request_id       == Strip(OrEmpty(rows[i].request_id))
                run_id           == Strip(OrEmpty(rows[i].run_id))
                status           == _normalize(rows[i].status)
                is_active_status == status \in active_request_statuses
                is_active_run    == IF run_id # EmptyStr THEN run_id \in active_runs ELSE FALSE
                is_superseded    == IF request_id # EmptyStr
                                    THEN request_id \in superseded_ids ELSE FALSE
            IN  is_active_status /\ is_active_run /\ ~is_superseded
    IN  SplitResult(rows,
                    InFileOrder({i \in 1..Len(rows) : kept(i)}),
                    InFileOrder({i \in 1..Len(rows) : ~kept(i)}))

(***************************************************************************)
(* scripts/team_ops_cleanup.py: main().                                    *)
(***************************************************************************)
RUN_REGISTRY == "run_registry.csv"
CHANGE_REQUEST_QUEUE == "change_request_queue.csv"
HANDOFF_LOG_CSV == "handoff_log.csv"
DECISION_LOG == "decision_log.csv"

\* required_files of main(), in the order main() iterates over them.
required_files == <<RUN_REGISTRY, CHANGE_REQUEST_QUEUE, HANDOFF_LOG_CSV, DECISION_LOG>>

FileNames == Range(required_files)

\* The header line of each live file: the columns the tool reads.
Header(name) ==
    CASE name = RUN_REGISTRY -> {"run_id", "created_utc", "status"}
      [] name = CHANGE_REQUEST_QUEUE ->
             {"request_id", "run_id", "status", "supersedes_request_id", "statement"}
      [] name = HANDOFF_LOG_CSV -> {"run_id"}
      [] name = DECISION_LOG -> {"run_id"}

\* _write_csv followed by _read_csv: DictWriter with extrasaction="ignore"
\* writes the header's columns of every row, in the order of rows, None as
\* the empty string, and no cell that is outside the header.
_write_csv(header, rows) ==
    [k \in 1..Len(rows) |-> [h \in header |-> OrEmpty(rows[k][h])]]

\* The cells of the model's files.
R1 == <<"R", "1">>
R2Padded == <<"R", "2", " ">>
T1 == <<"1">>
T2 == <<"2">>
StatusActivePadded == <<"A", "c", "t", "i", "v", "e", " ">>
StatusResolved == <<"r", "e", "s", "o", "l", "v", "e", "d">>
StatusOpenPadded == <<" ", "O", "p", "e", "n">>
StatusDone == <<"d", "o", "n", "e">>
CR1 == <<"C", "R", "1">>
CR2 == <<"C", "R", "2">>
CR2Padded == <<" ", "C", "R", "2">>

\* csv.DictReader keeps the cells a line has beyond the header in a list,
\* under the key None.
restkey == "None"

\* The rows _read_csv gives for a run registry with lines shorter and longer
\* than its header.
RaggedRunRows ==
    LET whole == [run_id : {R1}, created_utc : {T1},
                  status : {StatusActivePadded, StatusResolved}]
    IN  whole
        \cup {[run_id |-> R1, created_utc |-> T1, status |-> None]}
        \cup {row @@ (restkey :> <<T2>>) : row \in whole}

RunIds == {EmptyStr, R1, R2Padded}

RunRows ==
    [run_id : RunIds, created_utc : {T1, T2}, status : {StatusActivePadded, StatusResolved}]

RequestRows ==
    [request_id : {EmptyStr, CR1, CR2},
     run_id : RunIds,
     status : {StatusOpenPadded, StatusDone},
     supersedes_request_id : {EmptyStr, CR1, CR2Padded},
     statement : {EmptyStr}]

LogRows == [run_id : RunIds]

\* --active-run-statuses / --active-request-statuses after _parse_set: the
\* default set, or a set the user gave.
RunStatusSets == {ACTIVE_RUN_STATUSES_DEFAULT, {StatusResolved}}

RequestStatusSets == {ACTIVE_REQUEST_STATUSES_DEFAULT, {StatusDone}}

\* The options of an invocation of main(), with the default status sets.
CleanupArgs ==
    [dry_run : BOOLEAN,
     keep_run_history : BOOLEAN,
     active_run_statuses : {ACTIVE_RUN_STATUSES_DEFAULT},
     active_request_statuses : {ACTIVE_REQUEST_STATUSES_DEFAULT}]

\* The options that decide the partition.
SplitOptions(args) ==
    <<args.keep_run_history, args.active_run_statuses, args.active_request_statuses>>

BoundedSeq(S, n) == UNION {[1..k -> S] : k \in 0..n}

EmptySplit == SplitResult(<<>>, <<>>, <<>>)

\* Where a pass of main() stands: the write it does next, k the position in
\* required_files of the file it is about.
Returned == [phase |-> "return", k |-> 0]

\* The summary of an invocation that printed none.
NoSummary == <<>>

\* What the model remembers of the last event: the invocation's options,
\* the rows it read, the partition it computed and its exit code; passes is
\* the number of non-dry-run passes that got to their first write; settled is
\* the options of the latest non-dry-run pass when no row was added since.
NoInvocation ==
    [op          |-> "none",
     args        |-> [dry_run |-> FALSE, keep_run_history |-> FALSE,
                      active_run_statuses |-> {}, active_request_statuses |-> {}],
     rows        |-> [name \in FileNames |-> <<>>],
     split_map   |-> [name \in FileNames |-> EmptySplit],
     active_runs |-> {},
     summary     |-> NoSummary,
     pc          |-> Returned,
     crashed     |-> FALSE,
     passes      |-> 0,
     timestamp   |-> 0,
     exit        |-> 0,
     follows     |-> {},
     settled     |-> {}]

\* main(): active_runs and split_map of the four files.
Partition(rows, args) ==
    LET run == _split_run_registry(rows[RUN_REGISTRY], args.active_run_statuses,
                                  args.keep_run_history)
        req == _split_change_requests(rows[CHANGE_REQUEST_QUEUE], run.active_runs,
                                     args.active_request_statuses)
        handoff  == _split_by_active_runs(rows[HANDOFF_LOG_CSV], run.active_runs)
        decision == _split_by_active_runs(rows[DECISION_LOG], run.active_runs)
    IN  [active_runs |-> run.active_runs,
         split_map   |-> [name \in FileNames |->
                             CASE name = RUN_REGISTRY -> run.split
                               [] name = CHANGE_REQUEST_QUEUE -> req
                               [] name = HANDOFF_LOG_CSV -> handoff
                               [] name = DECISION_LOG -> decision]]

\* main(): summary.
Summary(rows, args, split_map, active_runs, now) ==
    [timestamp_utc           |-> now,
     dry_run                 |-> args.dry_run,
     active_run_ids          |-> Sorted(active_runs),
     active_run_statuses     |-> args.active_run_statuses,
     active_request_statuses |-> args.active_request_statuses,
     counts |-> [name \in FileNames |->
                    [before  |-> Len(rows[name]),
                     keep    |-> Len(split_map[name].keep),
                     archive |-> Len(split_map[name].archive)]]]

\* The row of the index with the counts of the rows kept.
IndexRow_kept(summary) ==
    [timestamp_utc          |-> summary.timestamp_utc,
     archive_dir            |-> summary.timestamp_utc,
     active_run_ids         |-> summary.active_run_ids,
     run_rows_archived      |-> summary.counts[RUN_REGISTRY].keep,
     request_rows_archived  |-> summary.counts[CHANGE_REQUEST_QUEUE].keep,
     handoff_rows_archived  |-> summary.counts[HANDOFF_LOG_CSV].keep,
     decision_rows_archived |-> summary.counts[DECISION_LOG].keep]

\* main(): the row appended to archive_index.csv.
IndexRow(summary) ==
    [timestamp_utc          |-> summary.timestamp_utc,
     archive_dir            |-> summary.timestamp_utc,
     active_run_ids         |-> summary.active_run_ids,
     run_rows_archived      |-> summary.counts[RUN_REGISTRY].archive,
     request_rows_archived  |-> summary.counts[CHANGE_REQUEST_QUEUE].archive,
     handoff_rows_archived  |-> summary.counts[HANDOFF_LOG_CSV].archive,
     decision_rows_archived |-> summary.counts[DECISION_LOG].archive]

\* An archive directory that was just made.
NewDir == [backup |-> EmptyDict, archived_rows |-> EmptyDict, manifest |-> <<>>]

\* main(): the archive directory of a non-dry-run pass. A pass in the same
\* second as an earlier one writes into the same directory: backup copies,
\* manifest and the archived_rows files it writes replace the earlier ones.
ArchiveDir(rows, split_map, summary, old) ==
    LET written == {name \in FileNames : split_map[name].archive # <<>>}
    IN  [backup        |-> rows,
         archived_rows |->
             [name \in written \cup DOMAIN old |->
                 IF name \in written
                 THEN _write_csv(Header(name), split_map[name].archive)
                 ELSE old[name]],
         manifest      |-> <<[summary |-> summary,
                              archived_files |->
                                  SelectSeq(required_files, LAMBDA name : name \in written)]>>]

MaxPasses == 2
MaxClock == 1
MaxLiveRows == 2
MaxRunRows == 3
MaxReqRows == 2
MaxLogRows == 3

\* The rows of the live files when the tool is first run.
LiveRows(name) ==
    CASE name = RUN_REGISTRY ->
             [run_id : {R1, R2Padded}, created_utc : {T1, T2},
              status : {StatusActivePadded, StatusResolved}]
      [] name = CHANGE_REQUEST_QUEUE ->
             [request_id : {CR1, CR2}, run_id : {R1},
              status : {StatusOpenPadded, StatusDone},
              supersedes_request_id : {EmptyStr, CR1},
              statement : {EmptyStr}]
      [] name = HANDOFF_LOG_CSV -> LogRows
      [] name = DECISION_LOG -> LogRows

\* The live files that exist (present) hold MaxLiveRows rows at most, all
\* together.
FilesAre(files, present) ==
    \E n1 \in 0..MaxLiveRows : \E n2 \in 0..(MaxLiveRows - n1) :
    \E n3 \in 0..(MaxLiveRows - n1 - n2) : \E n4 \in 0..(MaxLiveRows - n1 - n2 - n3) :
    \E runs \in [1..n1 -> LiveRows(RUN_REGISTRY)] :
    \E requests \in [1..n2 -> LiveRows(CHANGE_REQUEST_QUEUE)] :
    \E handoffs \in [1..n3 -> LiveRows(HANDOFF_LOG_CSV)] :
    \E decisions \in [1..n4 -> LiveRows(DECISION_LOG)] :
        files = [name \in present |->
                    CASE name = RUN_REGISTRY -> runs
                      [] name = CHANGE_REQUEST_QUEUE -> requests
                      [] name = HANDOFF_LOG_CSV -> handoffs
                      [] name = DECISION_LOG -> decisions]

\* All four live files exist.
LiveFilesAre(files) == FilesAre(files, FileNames)

\* main() prints the summary and returns before it writes when --dry-run is
\* given.
DryRunReturns_never(args) == FALSE

DryRunReturns(args) == args.dry_run

\* main() of the cleanup tool when a required file does not exist: it
\* creates the backup directory before it looks for the files.
CleanupMissingFile_late ==
    /\ DOMAIN live # FileNames
    /\ \E args \in CleanupArgs :
           last' = [NoInvocation EXCEPT !.op = "cleanup", !.args = args, !.exit = 2,
                                        !.settled = last.settled,
                                        !.passes = last.passes]
    /\ archive' = Put(archive, clock, NewDir)
    /\ UNCHANGED <<logs, appended, today, ran, events, exported, live, index, clock>>

\* main() of the cleanup tool when a required file does not exist: it returns
\* 2 from the loop over required_files, before it reads or writes a file.
CleanupMissingFile ==
    /\ DOMAIN live # FileNames
    /\ \E args \in CleanupArgs :
           last' = [NoInvocation EXCEPT !.op = "cleanup", !.args = args, !.exit = 2,
                                        !.settled = last.settled,
                                        !.passes = last.passes]
    /\ UNCHANGED <<logs, appended, today, ran, events, exported, live, archive, index, clock>>

\* main() of the cleanup tool, all four required files present. A pass that
\* writes is stamped with the second it runs in: the second of the writing
\* pass before it, or a later one.
Cleanup ==
    /\ DOMAIN live = FileNames
    /\ \E args \in CleanupArgs :
       \E now \in IF args.dry_run THEN {clock} ELSE {t \in {clock, clock + 1} : t <= MaxClock} :
       \* (the partition is computed once, then used by every write below)
       \E partition \in {Partition(live, args)} :
           LET rows        == live
               split_map   == partition.split_map
               active_runs == partition.active_runs
               summary     == Summary(rows, args, split_map, active_runs, now)
               result      ==
                   [op          |-> "cleanup",
                    args        |-> args,
                    rows        |-> rows,
                    split_map   |-> split_map,
                    active_runs |-> active_runs,
                    summary     |-> <<summary>>,
                    pc          |-> Returned,
                    crashed     |-> FALSE,
                    passes      |-> IF args.dry_run THEN last.passes
                                    ELSE last.passes + 1,
                    timestamp   |-> now,
                    exit        |-> 0,
                    follows     |-> last.settled,
                    settled     |-> IF args.dry_run THEN last.settled
                                    ELSE {SplitOptions(args)}]
           IN  /\ args.dry_run \/ Len(index) < MaxPasses
               /\ last' = result
               /\ clock' = now
               /\ IF DryRunReturns(args)
                  THEN UNCHANGED <<live, archive, index>>
                  ELSE /\ live' = [name \in FileNames |->
                                      _write_csv(Header(name), split_map[name].keep)]
                       /\ archive' = Put(archive, now,
                              ArchiveDir(rows, split_map, summary,
                                         IF now \in DOMAIN archive
                                         THEN archive[now].archived_rows ELSE EmptyDict))
                       /\ index' = Append(index, IndexRow(summary))
               /\ UNCHANGED <<logs, appended, today, ran, events, exported>>

(***************************************************************************)
(* main() of the cleanup tool, one file-system write at a time, and a      *)
(* crash of the process between two writes.                                *)
(***************************************************************************)
\* The order of the writes of main(), with every backup copied right before
\* its file is rewritten.
NextWrite_interleaved(pc) ==
    CASE pc.phase = "backup"   -> [phase |-> "rewrite", k |-> pc.k]
      [] pc.phase = "rewrite"  -> [phase |-> "archive", k |-> pc.k]
      [] pc.phase = "archive"  -> IF pc.k < Len(required_files)
                                  THEN [phase |-> "backup", k |-> pc.k + 1]
                                  ELSE [phase |-> "manifest", k |-> 0]
      [] pc.phase = "manifest" -> [phase |-> "index", k |-> 0]
      [] pc.phase = "index"    -> Returned

\* The order of the writes of main(): the loop of the backups, the loop that
\* rewrites a live file and then writes its archived rows, the manifest, the
\* index.
NextWrite(pc) ==
    CASE pc.phase = "backup"   -> IF pc.k < Len(required_files)
                                  THEN [phase |-> "backup", k |-> pc.k + 1]
                                  ELSE [phase |-> "rewrite", k |-> 1]
      [] pc.phase = "rewrite"  -> [phase |-> "archive", k |-> pc.k]
      [] pc.phase = "archive"  -> IF pc.k < Len(required_files)
                                  THEN [phase |-> "rewrite", k |-> pc.k + 1]
                                  ELSE [phase |-> "manifest", k |-> 0]
      [] pc.phase = "manifest" -> [phase |-> "index", k |-> 0]
      [] pc.phase = "index"    -> Returned

\* The pass of main() that is running.
Running(phase) ==
    /\ last.op = "cleanup"
    /\ ~last.crashed
    /\ last.pc.phase = phase

\* The archive directory of the running pass.
PassDir == IF last.timestamp \in DOMAIN archive THEN archive[last.timestamp] ELSE NewDir

\* main() up to the first write of a non-dry-run pass: the files are read,
\* the partition and the summary are computed, the directory is named.
StartPass ==
    /\ DOMAIN live = FileNames
    /\ last.crashed \/ last.pc = Returned
    /\ last.passes < MaxPasses
    /\ \E args \in {a \in CleanupArgs : ~a.dry_run} :
       \E now \in {t \in {clock, clock + 1} : t <= MaxClock} :
       \E partition \in {Partition(live, args)} :
           /\ last' = [op          |-> "cleanup",
                       args        |-> args,
                       rows        |-> live,
                       split_map   |-> partition.split_map,
                       active_runs |-> partition.active_runs,
                       summary     |-> <<Summary(live, args, partition.split_map,
                                                 partition.active_runs, now)>>,
                       pc          |-> [phase |-> "backup", k |-> 1],
                       crashed     |-> FALSE,
                       passes      |-> last.passes + 1,
                       timestamp   |-> now,
                       exit        |-> 0,
                       follows     |-> {},
                       settled     |-> {}]
           /\ clock' = now
    /\ UNCHANGED <<logs, appended, today, ran, events, exported, live, archive, index>>

\* _copy_as_backup: the live file, as it is on disk, is copied into backup/.
CopyAsBackup ==
    /\ Running("backup")
    /\ LET name == required_files[last.pc.k]
       IN  archive' = Put(archive, last.timestamp,
                          [PassDir EXCEPT !.backup = Put(@, name, live[name])])
    /\ last' = [last EXCEPT !.pc = NextWrite(@)]
    /\ UNCHANGED <<logs, appended, today, ran, events, exported, live, index, clock>>

\* _write_csv(path, headers[name], split.keep): the live file is replaced.
RewriteLive ==
    /\ Running("rewrite")
    /\ LET name == required_files[last.pc.k]
       IN  live' = [live EXCEPT ![name] =
                       _write_csv(Header(name), last.split_map[name].keep)]
    /\ last' = [last EXCEPT !.pc = NextWrite(@)]
    /\ UNCHANGED <<logs, appended, today, ran, events, exported, archive, index, clock>>

\* _archive_rows: the archived rows of the file are written, if there are any.
ArchiveRows ==
    /\ Running("archive")
    /\ LET name == required_files[last.pc.k]
           rows == last.split_map[name].archive
       IN  archive' = IF rows = <<>> THEN archive
                      ELSE Put(archive, last.timestamp,
                               [PassDir EXCEPT !.archived_rows =
                                   Put(@, name, _write_csv(Header(name), rows))])
    /\ last' = [last EXCEPT !.pc = NextWrite(@)]
    /\ UNCHANGED <<logs, appended, today, ran, events, exported, live, index, clock>>

\* main(): manifest.json is written.
WriteManifest ==
    /\ Running("manifest")
    /\ LET written == {name \in FileNames : last.split_map[name].archive # <<>>}
       IN  archive' = Put(archive, last.timestamp,
                          [PassDir EXCEPT !.manifest =
                              <<[summary |-> last.summary[1],
                                 archived_files |->
                                     SelectSeq(required_files,
                                               LAMBDA name : name \in written)]>>])
    /\ last' = [last EXCEPT !.pc = NextWrite(@)]
    /\ UNCHANGED <<logs, appended, today, ran, events, exported, live, index, clock>>

\* main(): the index is read, the row of the pass is appended, the index is
\* written, main() returns 0.
WriteIndex ==
    /\ Running("index")
    /\ index' = Append(index, IndexRow(last.summary[1]))
    /\ last' = [last EXCEPT !.pc = NextWrite(@),
                            !.settled = {SplitOptions(last.args)}]
    /\ UNCHANGED <<logs, appended, today, ran, events, exported, live, archive, clock>>

\* The process dies between two writes of a pass.
Crash ==
    /\ last.op \in {"cleanup", "_write_csv"}
    /\ ~last.crashed
    /\ last.pc # Returned
    /\ last' = [last EXCEPT !.crashed = TRUE]
    /\ UNCHANGED <<logs, appended, today, ran, events, exported, live, archive, index, clock>>

(***************************************************************************)
(* _write_csv, one file-system write at a time: the temporary file is      *)
(* opened, the header and the rows are written to it, it is renamed to the *)
(* path of the live file.                                                  *)
(***************************************************************************)
\* A slip: the rows are written to the live file itself.
TmpPath_inplace(name) == name

\* path.with_suffix(path.suffix + ".tmp")
TmpPath(name) ==
    CASE name = RUN_REGISTRY -> "run_registry.csv.tmp"
      [] name = CHANGE_REQUEST_QUEUE -> "change_request_queue.csv.tmp"
      [] name = HANDOFF_LOG_CSV -> "handoff_log.csv.tmp"
      [] name = DECISION_LOG -> "decision_log.csv.tmp"

\* The call of _write_csv that is running, in the given phase.
Writing(phase) ==
    /\ last.op = "_write_csv"
    /\ ~last.crashed
    /\ last.pc.phase = phase

\* main() calls _write_csv(path, headers[name], split.keep) for the run
\* registry, with the keep list of the rows on disk.
WriteCsvCall ==
    /\ last.crashed \/ last.pc = Returned
    /\ last.passes < MaxPasses
    /\ \E keep_run_history \in BOOLEAN :
           LET r == _split_run_registry(live[RUN_REGISTRY], ACTIVE_RUN_STATUSES_DEFAULT,
                                       keep_run_history)
           IN  last' = [NoInvocation EXCEPT
                           !.op = "_write_csv",
                           !.args.keep_run_history = keep_run_history,
                           !.args.active_run_statuses = ACTIVE_RUN_STATUSES_DEFAULT,
                           !.rows[RUN_REGISTRY] = live[RUN_REGISTRY],
                           !.split_map[RUN_REGISTRY] = r.split,
                           !.active_runs = r.active_runs,
                           !.pc = [phase |-> "open", k |-> 0],
                           !.passes = last.passes + 1]
    /\ UNCHANGED <<logs, appended, today, ran, events, exported, live, archive, index, clock>>

\* tmp.open("w"): the temporary file exists and is empty.
OpenTmp ==
    /\ Writing("open")
    /\ live' = Put(live, TmpPath(RUN_REGISTRY), <<>>)
    /\ last' = [last EXCEPT !.pc = [phase |-> "header", k |-> 0]]
    /\ UNCHANGED <<logs, appended, today, ran, events, exported, archive, index, clock>>

\* writer.writeheader(): the file has its header line and no row.
WriteHeader ==
    /\ Writing("header")
    /\ last' = [last EXCEPT !.pc = IF last.split_map[RUN_REGISTRY].keep = <<>>
                                   THEN [phase |-> "replace", k |-> 0]
                                   ELSE [phase |-> "rows", k |-> 1]]
    /\ UNCHANGED <<logs, appended, today, ran, events, exported, live, archive, index, clock>>

\* writer.writerows(rows): row k reaches the temporary file.
WriteRow ==
    /\ Writing("rows")
    /\ LET rows == _write_csv(Header(RUN_REGISTRY), last.split_map[RUN_REGISTRY].keep)
           tmp  == TmpPath(RUN_REGISTRY)
       IN  /\ live' = [live EXCEPT ![tmp] = Append(@, rows[last.pc.k])]
           /\ last' = [last EXCEPT !.pc = IF last.pc.k < Len(rows)
                                          THEN [phase |-> "rows", k |-> last.pc.k + 1]
                                          ELSE [phase |-> "replace", k |-> 0]]
    /\ UNCHANGED <<logs, appended, today, ran, events, exported, archive, index, clock>>

\* tmp.replace(path): the temporary file takes the place of the live file.
ReplaceTmp ==
    /\ Writing("replace")
    /\ LET tmp == TmpPath(RUN_REGISTRY)
       IN  live' = [name \in (DOMAIN live \ {tmp}) \cup {RUN_REGISTRY} |->
                       IF name = RUN_REGISTRY THEN live[tmp] ELSE live[name]]
    /\ last' = [last EXCEPT !.pc = Returned]
    /\ UNCHANGED <<logs, appended, today, ran, events, exported, archive, index, clock>>

\* _split_run_registry applied to the run registry on disk.
SplitRunRegistry ==
    /\ \E active_run_statuses \in RunStatusSets : \E keep_run_history \in BOOLEAN :
           LET r == _split_run_registry(live[RUN_REGISTRY], active_run_statuses,
                                       keep_run_history)
           IN  last' = [NoInvocation EXCEPT
                           !.op = "_split_run_registry",
                           !.args.keep_run_history = keep_run_history,
                           !.args.active_run_statuses = active_run_statuses,
                           !.rows[RUN_REGISTRY] = live[RUN_REGISTRY],
                           !.split_map[RUN_REGISTRY] = r.split,
                           !.active_runs = r.active_runs]
    /\ UNCHANGED <<logs, appended, today, ran, events, exported, live, archive, index, clock>>

\* _split_change_requests applied to the change-request queue on disk.
SplitChangeRequests ==
    /\ \E active_runs \in SUBSET {Strip(id) : id \in RunIds \ {EmptyStr}} :
       \E active_request_statuses \in RequestStatusSets :
           last' = [NoInvocation EXCEPT
                       !.op = "_split_change_requests",
                       !.args.active_request_statuses = active_request_statuses,
                       !.rows[CHANGE_REQUEST_QUEUE] = live[CHANGE_REQUEST_QUEUE],
                       !.split_map[CHANGE_REQUEST_QUEUE] =
                           _split_change_requests(live[CHANGE_REQUEST_QUEUE], active_runs,
                                                 active_request_statuses),
                       !.active_runs = active_runs]
    /\ UNCHANGED <<logs, appended, today, ran, events, exported, live, archive, index, clock>>

\* _split_by_active_runs applied to the handoff log on disk.
SplitByActiveRuns ==
    /\ \E active_runs \in SUBSET {Strip(id) : id \in RunIds \ {EmptyStr}} :
           last' = [NoInvocation EXCEPT
                       !.op = "_split_by_active_runs",
                       !.rows[HANDOFF_LOG_CSV] = live[HANDOFF_LOG_CSV],
                       !.split_map[HANDOFF_LOG_CSV] =
                           _split_by_active_runs(live[HANDOFF_LOG_CSV], active_runs),
                       !.active_runs = active_runs]
    /\ UNCHANGED <<logs, appended, today, ran, events, exported, live, archive, index, clock>>

(***************************************************************************)
(* The export tool over the handoff log, the one event file main() passes  *)
(* to all three of validate_duplicates, validate_supersedes and            *)
(* materialize_latest.                                                     *)
(***************************************************************************)
MaxEvents == 3

H1 == <<"H", "1">>
H2 == <<"H", "2">>
H1Padded == <<" ", "H", "1">>

EntryIds == {EmptyStr, H1, H1Padded, H2}

HandoffEventRows ==
    [entry_id : EntryIds, supersedes_entry_id : EntryIds]

NotExported ==
    [ran |-> FALSE, events |-> <<>>, issues |-> <<>>, current |-> EmptyDict,
     strict |-> FALSE, summary |-> <<>>, written |-> <<>>, printed |-> <<>>, exit |-> 0]

\* The files main() writes into the export directory, in the order it writes
\* them.
ExportFiles == <<"oracle_record.json", "oracle_record.md", "manifest.json", "oracle_record.sha256">>

\* Cells of a JSON-list column that hold an empty text or a JSON array, each
\* with the list it stands for, and cells that hold neither.
ValidJsonCells ==
    {<<None, EmptyList>>,
     <<EmptyStr, EmptyList>>,
     <<<<" ">>, EmptyList>>,
     <<<<"[", "]">>, EmptyList>>,
     <<<<" ", "[", " ", "1", " ", ",", " ", "2", "1", " ", "]", " ">>,
       <<"list", <<"int", "1">>, <<"int", "2", "1">>>>>>,
     <<<<"[", "[", "1", "]", ",", "2", "]">>,
       <<"list", <<"list", <<"int", "1">>>>, <<"int", "2">>>>>>}

InvalidJsonCells ==
    {<<"[", "o", "o", "p", "s">>,
     <<"o">>,
     <<"1">>,
     <<"[", "1">>,
     <<"[", "1", "]", "o">>,
     <<"[", "1", ",", "]">>,
     <<"[", "0", "1", "]">>}

JsonCells == {cell[1] : cell \in ValidJsonCells} \cup InvalidJsonCells

\* Rows of a handoff log with two JSON-list columns.
JsonEventRows ==
    [entry_id : {H1, H2}, supersedes_entry_id : {EmptyStr, H2},
     blocking_flags : JsonCells, input_refs : {EmptyStr, <<"o">>}]

MaxJsonRows == 2

\* read_csv of a live file: no rows when the file does not exist.
EventRows(name) == IF name \in DOMAIN live THEN live[name] ELSE <<>>

\* An external actor appends a row to handoff_log.csv.
AppendEventRow ==
    /\ Len(events) < MaxEvents
    /\ \E row \in HandoffEventRows : events' = Append(events, row)
    /\ UNCHANGED <<logs, appended, today, ran, exported, live, archive, index, clock, last>>

\* main(), last part: what it writes, prints and returns, given the
\* normalized handoff rows, the latest rows of every file and all issues.
main_record(strict, normalized, current, all) ==
    [ran     |-> TRUE,
     events  |-> normalized,
     issues  |-> all,
     current |-> current.handoffs,
     strict  |-> strict,
     summary |-> <<build_summary(current, all)>>,
     written |-> ExportFiles,
     printed |-> <<[integrity_ok |-> all = <<>>, issue_count |-> Len(all)]>>,
     exit    |-> ExitCode(strict, all)]

\* main(), middle part: the validators in the order main() calls them, and
\* the latest rows of every file. The run registry of the model has no
\* supersedes_run_id column, for which validate_supersedes reports nothing.
main_validated(strict, runs, requests, normalized, issues) ==
    main_record(strict, normalized,
                [runs            |-> materialize_latest(runs, "run_id"),
                 change_requests |-> materialize_latest(requests, "request_id"),
                 handoffs        |-> materialize_latest(normalized, "entry_id")],
                validate_supersedes(
                    HANDOFF_LOG, normalized, "entry_id", "supersedes_entry_id",
                    validate_supersedes(
                        "data/team_ops/change_request_queue.csv", requests,
                        "request_id", "supersedes_request_id",
                        validate_duplicates(HANDOFF_LOG, normalized, "entry_id", issues))))

\* main(), first part: the files are read and normalized one after the
\* other, every file handing its issues on to the next.
main_handoffs(strict, runs, requests, rows) ==
    main_validated(strict, runs, requests.out, rows.out, rows.issues)

main_requests(strict, runs, requests) ==
    main_handoffs(strict, runs.out, requests,
                  normalize_rows(HANDOFF_LOG, events, requests.issues))

main_runs(strict, runs) ==
    main_requests(strict, runs,
                  normalize_rows("data/team_ops/change_request_queue.csv",
                                 EventRows(CHANGE_REQUEST_QUEUE), runs.issues))

\* main() of the export tool over the run registry, the change-request
\* queue and the handoff log.
ExportRecord ==
    /\ \E strict \in BOOLEAN :
           exported' = main_runs(strict,
                                 normalize_rows("data/team_ops/run_registry.csv",
                                                EventRows(RUN_REGISTRY), <<>>))
    /\ UNCHANGED <<logs, appended, today, ran, events, live, archive, index, clock, last>>


NoFiles == [name \in FileNames |-> <<>>]

CleanupIdle ==
    /\ live = NoFiles
    /\ archive = EmptyDict
    /\ index = <<>>
    /\ clock = 0
    /\ last = NoInvocation

ExportIdle ==
    /\ events = <<>>
    /\ exported = NotExported

(***************************************************************************)
(* scripts/rapid_review/tickets.py: the append-only ticket logs of the     *)
(* review cell. Ticket IDs are strings of characters; the other cells are  *)
(* compared as they are and are kept whole.                                *)
(***************************************************************************)
DECISION_DISPOSITION_PATH == "DECISION_DISPOSITION.csv"
EVIDENCE_SUPPORT_PATH == "EVIDENCE_SUPPORT.csv"
TICKET_QUEUE_PATH == "TICKET_QUEUE.csv"
TICKET_RESPONSES_PATH == "TICKET_RESPONSES.csv"

LogNames ==
    {DECISION_DISPOSITION_PATH, EVIDENCE_SUPPORT_PATH, TICKET_QUEUE_PATH,
     TICKET_RESPONSES_PATH}

\* What an operator gives when the Python function raises ValueError.
ValueError == -1

RECURSIVE int_from(_, _)
int_from(text, acc) ==
    IF text = <<>> THEN acc
    ELSE int_from(Tail(text), 10 * acc + DigitValue(Head(text)))

\* int(text) for a text without sign, blank or underscore.
int(text) ==
    IF text # <<>> /\ \A i \in 1..Len(text) : IsDigit(text[i])
    THEN int_from(text, 0)
    ELSE ValueError

\* str(n)
RECURSIVE Decimal(_)
Decimal(n) ==
    IF n < 10 THEN <<Digits[n + 1]>>
    ELSE Decimal(n \div 10) \o <<Digits[(n % 10) + 1]>>

\* f"{n:0<width>d}"
RECURSIVE ZeroPad(_, _)
ZeroPad(text, width) ==
    IF Len(text) >= width THEN text ELSE ZeroPad(<<"0">> \o text, width)

\* text.startswith(prefix)
startswith(text, prefix) ==
    Len(text) >= Len(prefix) /\ SubSeq(text, 1, Len(prefix)) = prefix

\* text.split("-")[-1]
RECURSIVE LastPart(_)
LastPart(text) ==
    IF \A i \in 1..Len(text) : text[i] # "-" THEN text ELSE LastPart(Tail(text))

\* datetime.now(tz=timezone.utc).strftime("%Y%m%d"), on the days of the model.
DateParts ==
    << <<"2", "0", "2", "5", "0", "1", "0", "1">>,
       <<"2", "0", "2", "5", "0", "1", "0", "2">> >>

Days == 1..Len(DateParts)

\* f"RRC-{date_part}-"
Prefix(date_part) == <<"R", "R", "C", "-">> \o date_part \o <<"-">>

\* read_csv of a log.
read_csv(path) == logs[path]

\* next_row_id
next_row_id(rows) ==
    IF rows = <<>> THEN 1
    ELSE SetMax({rows[i].row_id : i \in 1..Len(rows)}) + 1

\* append_row
append_row_truncating(rows, row) == <<row>>

append_row(rows, row) == Append(rows, row)

\* A slip: a text that is not boolean-like counts as false.
normalize_bool_lenient(value) ==
    LET lowered == Lower(Strip(value))
    IN  IF lowered \in {<<"t", "r", "u", "e">>, <<"t">>, <<"y", "e", "s">>, <<"y">>, <<"1">>}
        THEN "true"
        ELSE "false"

\* normalize_bool
normalize_bool(value) ==
    LET lowered == Lower(Strip(value))
    IN  IF lowered \in {<<"t", "r", "u", "e">>, <<"t">>, <<"y", "e", "s">>, <<"y">>, <<"1">>}
        THEN "true"
        ELSE IF lowered \in {<<"f", "a", "l", "s", "e">>, <<"f">>, <<"n", "o">>, <<"n">>,
                             <<"0">>}
        THEN "false"
        ELSE "ValueError"

\* latest_status_by_ticket: the loop over the ticket queue.
RECURSIVE latest_status_queue(_, _, _)
latest_status_queue(rows, i, status) ==
    IF i > Len(rows) THEN status
    ELSE LET ticket_id == rows[i].ticket_id
         IN  IF ticket_id # EmptyStr
             THEN latest_status_queue(rows, i + 1,
                      Put(status, ticket_id,
                          IF rows[i].status = "" THEN "open" ELSE rows[i].status))
             ELSE latest_status_queue(rows, i + 1, status)

\* latest_status_by_ticket: the loop over the responses.
RECURSIVE latest_status_responses(_, _, _)
latest_status_responses(rows, i, status) ==
    IF i > Len(rows) THEN status
    ELSE LET ticket_id == rows[i].ticket_id
         IN  IF ticket_id # EmptyStr /\ rows[i].status_after # ""
             THEN latest_status_responses(rows, i + 1,
                      Put(status, ticket_id, rows[i].status_after))
             ELSE latest_status_responses(rows, i + 1, status)

\* latest_status_by_ticket
latest_status_by_ticket(queue, responses) ==
    latest_status_responses(responses, 1, latest_status_queue(queue, 1, EmptyDict))

\* next_ticket_id: the loop over the ticket queue.
RECURSIVE max_idx_from(_, _, _, _)
max_idx_from(rows, prefix, i, max_idx) ==
    IF i > Len(rows) THEN max_idx
    ELSE LET ticket_id == rows[i].ticket_id
             idx       == int(LastPart(ticket_id))
         IN  IF startswith(ticket_id, prefix) /\ idx # ValueError /\ idx > max_idx
             THEN max_idx_from(rows, prefix, i + 1, idx)
             ELSE max_idx_from(rows, prefix, i + 1, max_idx)

\* next_ticket_id that numbers a ticket after the count of the day's rows.
next_ticket_id_counting(rows, date_part) ==
    LET prefix == Prefix(date_part)
        count  == Cardinality({i \in 1..Len(rows) : startswith(rows[i].ticket_id, prefix)})
    IN  prefix \o ZeroPad(Decimal(count + 1), 3)

\* next_ticket_id
next_ticket_id(rows, date_part) ==
    LET prefix == Prefix(date_part)
    IN  prefix \o ZeroPad(Decimal(max_idx_from(rows, prefix, 1, 0) + 1), 3)

\* The row create_ticket and from_review append to the ticket queue.
QueueRow(rows, now, ticket_id, review_run_id, claim_id, priority) ==
    [row_id        |-> next_row_id(rows),
     ts_utc        |-> now,
     ticket_id     |-> ticket_id,
     review_run_id |-> review_run_id,
     claim_id      |-> claim_id,
     priority      |-> priority,
     status        |-> "open"]

\* build_ticket_seeds_from_review with the FIRST decision row of the run.
build_ticket_seeds_from_review_first(review_run_id) ==
    LET decisions == SelectSeq(read_csv(DECISION_DISPOSITION_PATH),
                               LAMBDA row : row.review_run_id = review_run_id)
        evidence_rows == SelectSeq(read_csv(EVIDENCE_SUPPORT_PATH),
                                   LAMBDA row : row.review_run_id = review_run_id)
        wanted == SelectSeq(evidence_rows,
                            LAMBDA row : row.support_status
                                             \in {"unsupported", "caveated", "aspirational"})
    IN  IF decisions = <<>> THEN [error |-> TRUE, seeds |-> <<>>]
        ELSE IF decisions[1].outcome \in {"approved_as_is"}
        THEN [error |-> FALSE, seeds |-> <<>>]
        ELSE [error |-> FALSE,
              seeds |-> [k \in 1..Len(wanted) |->
                            [review_run_id |-> review_run_id,
                             claim_id      |-> wanted[k].claim_id,
                             priority      |-> IF wanted[k].support_status = "unsupported"
                                               THEN "high" ELSE "medium"]]]

\* build_ticket_seeds_from_review
build_ticket_seeds_from_review(review_run_id) ==
    LET decisions == SelectSeq(read_csv(DECISION_DISPOSITION_PATH),
                               LAMBDA row : row.review_run_id = review_run_id)
        evidence_rows == SelectSeq(read_csv(EVIDENCE_SUPPORT_PATH),
                                   LAMBDA row : row.review_run_id = review_run_id)
        wanted == SelectSeq(evidence_rows,
                            LAMBDA row : row.support_status
                                             \in {"unsupported", "caveated", "aspirational"})
    IN  IF decisions = <<>> THEN [error |-> TRUE, seeds |-> <<>>]
        ELSE IF decisions[Len(decisions)].outcome \in {"approved_as_is"}
        THEN [error |-> FALSE, seeds |-> <<>>]
        ELSE [error |-> FALSE,
              seeds |-> [k \in 1..Len(wanted) |->
                            [review_run_id |-> review_run_id,
                             claim_id      |-> wanted[k].claim_id,
                             priority      |-> IF wanted[k].support_status = "unsupported"
                                               THEN "high" ELSE "medium"]]]

\* from_review: the loop over the seeds, from seed k on; every turn reads the
\* queue again.
RECURSIVE from_review_loop(_, _, _, _)
from_review_loop(queue, seeds, k, now) ==
    IF k > Len(seeds) THEN queue
    ELSE from_review_loop(
             append_row(queue,
                        QueueRow(queue, now, next_ticket_id(queue, DateParts[now]),
                                 seeds[k].review_run_id, seeds[k].claim_id,
                                 seeds[k].priority)),
             seeds, k + 1, now)

\* list_tickets: the lines it prints, one for every row of the queue that
\* passes the filter.
list_tickets(queue, responses, status) ==
    LET status_by_ticket == latest_status_by_ticket(queue, responses)
        current_status(row) ==
            IF row.ticket_id \in DOMAIN status_by_ticket
            THEN status_by_ticket[row.ticket_id] ELSE row.status
        shown == SelectSeq(queue,
                           LAMBDA row : ~(status # "" /\ current_status(row) # status))
    IN  [k \in 1..Len(shown) |->
            [ticket_id |-> shown[k].ticket_id,
             status    |-> current_status(shown[k]),
             priority  |-> shown[k].priority,
             claim_id  |-> shown[k].claim_id]]

(***************************************************************************)
(* The commands of the ticket tool. A command runs on the day of the       *)
(* command before it, or on the next day.                                  *)
(***************************************************************************)
MaxQueueRows == 3
MaxResponseRows == 2
MaxDecisionRows == 2
MaxEvidenceRows == 3

\* --ticket-id values: an ID of the form the tool allocates, an ID of the day
\* with a suffix that is no number, an ID of another form.
ExplicitTicketIds ==
    {Prefix(DateParts[1]) \o <<"0", "0", "2">>,
     Prefix(DateParts[1]) \o <<"x">>,
     <<"T", "-", "9">>}

UnknownTicketId == <<"T", "-", "0">>

ReviewRunIds == {"RR1", "RR2"}

DecisionRows == [review_run_id : ReviewRunIds, outcome : {"approved_as_is", "revise"}]

EvidenceRows ==
    [review_run_id : {"RR1"}, claim_id : {"CL1"},
     support_status : {"supported", "unsupported", "caveated", "aspirational"}]
    \cup {[review_run_id |-> "RR2", claim_id |-> "CL2", support_status |-> "unsupported"]}

NoLogs == [path \in LogNames |-> <<>>]

NoCommand == [op |-> "none", args |-> <<>>, error |-> FALSE, out |-> <<>>, before |-> NoLogs]

LaterDays == {day \in {today, today + 1} : day \in Days}

\* create_ticket
CreateTicket ==
    /\ Len(read_csv(TICKET_QUEUE_PATH)) < MaxQueueRows
    /\ \E ticket_id_arg \in ExplicitTicketIds \cup {EmptyStr} : \E now \in LaterDays :
           LET queue     == read_csv(TICKET_QUEUE_PATH)
               ticket_id == IF ticket_id_arg # EmptyStr THEN ticket_id_arg
                            ELSE next_ticket_id(queue, DateParts[now])
               row       == QueueRow(queue, now, ticket_id, "RR1", "CL1", "medium")
           IN  /\ logs' = [logs EXCEPT ![TICKET_QUEUE_PATH] = append_row(@, row)]
               /\ appended' = Append(appended, <<TICKET_QUEUE_PATH, Len(queue) + 1>>)
               /\ today' = now
               /\ ran' = [op |-> "create", args |-> [ticket_id |-> ticket_id_arg],
                          error |-> FALSE, out |-> <<ticket_id>>, before |-> logs]
    /\ UNCHANGED <<events, exported, live, archive, index, clock, last>>

\* from_review
FromReview ==
    /\ \E review_run_id \in ReviewRunIds : \E now \in LaterDays :
           LET queue == read_csv(TICKET_QUEUE_PATH)
               built == build_ticket_seeds_from_review(review_run_id)
               seeds == built.seeds
               after == from_review_loop(queue, seeds, 1, now)
           IN  /\ Len(queue) + Len(seeds) <= MaxQueueRows
               /\ logs' = [logs EXCEPT ![TICKET_QUEUE_PATH] = after]
               /\ appended' = appended \o [k \in 1..Len(seeds) |->
                                              <<TICKET_QUEUE_PATH, Len(queue) + k>>]
               /\ today' = now
               /\ ran' = [op |-> "from-review", args |-> [review_run_id |-> review_run_id],
                          error |-> built.error,
                          out |-> [k \in 1..Len(seeds) |-> after[Len(queue) + k].ticket_id],
                          before |-> logs]
    /\ UNCHANGED <<events, exported, live, archive, index, clock, last>>

\* respond
Respond ==
    /\ Len(read_csv(TICKET_RESPONSES_PATH)) < MaxResponseRows
    /\ \E ticket_id \in {UnknownTicketId}
                           \cup {row.ticket_id : row \in Range(read_csv(TICKET_QUEUE_PATH))} :
       \E status_after \in {"in_progress", "resolved"} :
       \E non_breaking_change \in {<<"t", "r", "u", "e">>, <<" ", "N", "o">>,
                                    <<"m", "a", "y", "b", "e">>} :
       \E now \in LaterDays :
           LET queue         == read_csv(TICKET_QUEUE_PATH)
               response_rows == read_csv(TICKET_RESPONSES_PATH)
               known         == \E i \in 1..Len(queue) : queue[i].ticket_id = ticket_id
               count         == Cardinality({i \in 1..Len(response_rows) :
                                                response_rows[i].ticket_id = ticket_id})
               response_id   == ticket_id \o <<"-", "R">> \o ZeroPad(Decimal(count + 1), 2)
               bool          == normalize_bool(non_breaking_change)
               row == [row_id              |-> next_row_id(response_rows),
                       ts_utc              |-> now,
                       ticket_id           |-> ticket_id,
                       response_id         |-> response_id,
                       status_after        |-> status_after,
                       non_breaking_change |-> bool]
               error == ~known \/ bool = "ValueError"
           IN  /\ logs' = IF error THEN logs
                          ELSE [logs EXCEPT ![TICKET_RESPONSES_PATH] = append_row(@, row)]
               /\ appended' = IF error THEN appended
                              ELSE Append(appended,
                                          <<TICKET_RESPONSES_PATH, Len(response_rows) + 1>>)
               /\ today' = now
               /\ ran' = [op |-> "respond",
                          args |-> [ticket_id |-> ticket_id, status_after |-> status_after,
                                    non_breaking_change |-> non_breaking_change],
                          error |-> error,
                          out |-> IF error THEN <<>> ELSE <<response_id>>,
                          before |-> logs]
    /\ UNCHANGED <<events, exported, live, archive, index, clock, last>>

\* list_tickets
ListTickets ==
    /\ \E status \in {"", "resolved"} :
           ran' = [op |-> "list", args |-> [status |-> status], error |-> FALSE,
                   out |-> list_tickets(read_csv(TICKET_QUEUE_PATH),
                                        read_csv(TICKET_RESPONSES_PATH), status),
                   before |-> logs]
    /\ UNCHANGED <<logs, appended, today>>
    /\ UNCHANGED <<events, exported, live, archive, index, clock, last>>

TicketsIdle ==
    /\ logs = NoLogs
    /\ appended = <<>>
    /\ today = 1
    /\ ran = NoCommand

(***************************************************************************)
(* scripts/team_ops_migrate_ids_append_only.py                             *)
(***************************************************************************)
\* The team names of LEGACY_RE.
LEGACY_TEAMS ==
    {<<"B", "L", "U", "E">>, <<"R", "E", "D">>, <<"G", "R", "E", "E", "N">>,
     <<"B", "L", "A", "C", "K">>, <<"W", "H", "I", "T", "E">>, <<"G", "R", "E", "Y">>}

\* LEGACY_RE.match(text): the groups <<digits, team>> of the match, no
\* element when text does not match ^CR-([0-9]{4})-(TEAM)$.
LEGACY_RE(text) ==
    {<<SubSeq(text, 4, 7), team>> :
        team \in {t \in LEGACY_TEAMS :
                     /\ Len(text) = 8 + Len(t)
                     /\ SubSeq(text, 1, 3) = <<"C", "R", "-">>
                     /\ \A i \in 4..7 : IsDigit(text[i])
                     /\ text[8] = "-"
                     /\ SubSeq(text, 9, Len(text)) = t}}

\* normalize_request_id
normalize_request_id(request_id) ==
    LET m == LEGACY_RE(Strip(request_id))
    IN  IF m = {} THEN request_id
        ELSE LET groups == CHOOSE g \in m : TRUE
             IN  <<"C", "R", "-">> \o groups[2] \o <<"-">> \o groups[1]

\* The statement cells main() gives to the rows it appends.
CanonicalizedStatement ==
    <<"Append-only migration row: canonicalized legacy request_id format to CR-<TEAM>-NNNN.">>

BackfilledStatement ==
    <<"Append-only migration row: backfilled supersedes_request_id for duplicate request_id lineage.">>

\* main(): the keys of by_id, and by_id[rid].
by_id_keys(rows) ==
    {Strip(OrEmpty(rows[i].request_id)) : i \in 1..Len(rows)} \ {EmptyStr}

by_id(rows, rid) ==
    SelectSeq(rows, LAMBDA row : Strip(OrEmpty(row.request_id)) = rid)

\* main(), step 1, copying the first row of the ID.
canonicalize_rows_first(rows) ==
    LET rids == Sorted({rid \in by_id_keys(rows) : normalize_request_id(rid) # rid})
    IN  [k \in 1..Len(rids) |->
            LET rid    == rids[k]
                group  == by_id(rows, rid)
                latest == group[1]
            IN  [latest EXCEPT !.request_id = normalize_request_id(rid),
                               !.statement = CanonicalizedStatement,
                               !.supersedes_request_id = rid]]

\* main(), step 1: one row for every legacy ID, in sorted order of the IDs.
canonicalize_rows(rows) ==
    LET rids == Sorted({rid \in by_id_keys(rows) : normalize_request_id(rid) # rid})
    IN  [k \in 1..Len(rids) |->
            LET rid    == rids[k]
                group  == by_id(rows, rid)
                latest == group[Len(group)]
            IN  [latest EXCEPT !.request_id = normalize_request_id(rid),
                               !.statement = CanonicalizedStatement,
                               !.supersedes_request_id = rid]]

\* main(), step 2: one row for every ID that has several rows and whose
\* latest row does not name the ID itself, in sorted order of the IDs.
backfill_rows(rows) ==
    LET latest(rid) == LET group == by_id(rows, rid) IN group[Len(group)]
        rids == Sorted({rid \in by_id_keys(rows) :
                           /\ Len(by_id(rows, rid)) > 1
                           /\ Strip(OrEmpty(latest(rid).supersedes_request_id)) # rid})
    IN  [k \in 1..Len(rids) |->
            [latest(rids[k]) EXCEPT !.statement = BackfilledStatement,
                                    !.supersedes_request_id = rids[k]]]

\* main(): append_rows.
append_rows(rows) ==
    IF rows = <<>> THEN <<>> ELSE canonicalize_rows(rows) \o backfill_rows(rows)

\* csv.DictWriter.writerow of a row that has the header's cells: None is
\* written as the empty string.
writerow(row) == [h \in DOMAIN row |-> OrEmpty(row[h])]

\* The request IDs of the queue to migrate: a legacy ID, plain and padded,
\* its canonical form, and an ID of neither form.
Legacy1 == <<"C", "R", "-", "0", "0", "0", "1", "-", "B", "L", "U", "E">>
Legacy1Padded == <<" ">> \o Legacy1
Canonical1 == <<"C", "R", "-", "B", "L", "U", "E", "-", "0", "0", "0", "1">>

OriginalStatement == <<"s">>

MigrationRows ==
    [request_id : {Legacy1, Legacy1Padded, Canonical1, CR1},
     run_id : {R1},
     status : {StatusOpenPadded, StatusDone},
     supersedes_request_id : {EmptyStr, CR1, Legacy1},
     statement : {OriginalStatement}]

MaxMigrationRows == 3
MaxMigratedRows == 9

\* main() of the migration helper: the rows of append_rows are written
\* behind the rows of the queue.
Migrate ==
    /\ CHANGE_REQUEST_QUEUE \in DOMAIN live
    /\ LET rows == live[CHANGE_REQUEST_QUEUE]
           new  == append_rows(rows)
       IN  /\ Len(rows) + Len(new) <= MaxMigratedRows
           /\ live' = [live EXCEPT ![CHANGE_REQUEST_QUEUE] =
                           rows \o [k \in 1..Len(new) |-> writerow(new[k])]]
           /\ ran' = [op |-> "migrate", args |-> <<>>, error |-> FALSE, out |-> new,
                      before |-> rows]
    /\ UNCHANGED <<logs, appended, today, events, exported, archive, index, clock, last>>

(***************************************************************************)
(* Specification of the export tool: rows are appended to the handoff log  *)
(* and the export is run at any time.                                      *)
(***************************************************************************)
InitExport == ExportIdle /\ CleanupIdle /\ TicketsIdle

NextExport == AppendEventRow \/ ExportRecord

SpecExport == InitExport /\ [][NextExport]_vars

\* The rows the last export read, and their trimmed ID and supersedes cells.
ExpRows == exported.events

IdOf(i) == Strip(ExpRows[i].entry_id)

SupOf(i) == Strip(ExpRows[i].supersedes_entry_id)

IssuesFor(codes, i) ==
    {j \in DOMAIN exported.issues :
        /\ exported.issues[j].code \in codes
        /\ exported.issues[j]._row_number = i}

SelfRef(i) == SupOf(i) # EmptyStr /\ SupOf(i) = IdOf(i)

HasPrior(i) == \E j \in 1..(i - 1) : IdOf(j) = SupOf(i)

\* C6: materialize_latest returns a mapping whose keys are exactly the
\* non-empty trimmed key values of the file, each mapped to the row with the
\* highest row number carrying that key; rows with an empty key never appear.
C6_MaterializeLatest ==
    exported.ran =>
        LET cur  == exported.current
            keys == {IdOf(i) : i \in DOMAIN ExpRows} \ {EmptyStr}
        IN  /\ DOMAIN cur = keys
            /\ \A k \in keys :
                   LET n == SetMax({i \in DOMAIN ExpRows : IdOf(i) = k})
                   IN  cur[k] = ExpRows[n] /\ cur[k]._row_number = n
            /\ \A k \in DOMAIN cur : Strip(cur[k].entry_id) # EmptyStr

\* C6 witness: an ID carried by two rows (once padded), after a row with an
\* empty ID.
C6_Witness ==
    /\ exported.ran
    /\ \E i, j, e \in DOMAIN ExpRows :
           /\ i < j
           /\ IdOf(i) = IdOf(j)
           /\ ExpRows[i].entry_id # ExpRows[j].entry_id
           /\ ExpRows[i].supersedes_entry_id # ExpRows[j].supersedes_entry_id
           /\ IdOf(e) = EmptyStr

\* C7: every row whose non-empty supersedes value equals its own ID gets
\* exactly one SUPERSEDES_SELF issue carrying its row number; no other row
\* gets one.
C7_SupersedesSelf ==
    exported.ran =>
        /\ \A i \in DOMAIN ExpRows :
               Cardinality(IssuesFor({"SUPERSEDES_SELF"}, i))
                   = IF SelfRef(i) THEN 1 ELSE 0
        /\ \A j \in DOMAIN exported.issues :
               exported.issues[j].code = "SUPERSEDES_SELF"
                   => /\ exported.issues[j]._row_number \in DOMAIN ExpRows
                      /\ exported.issues[j].field = "supersedes_entry_id"

\* C7 witness: a self-referencing row whose two cells differ in padding, and
\* a row that supersedes another ID.
C7_Witness ==
    /\ exported.ran
    /\ \E i, j \in DOMAIN ExpRows :
           /\ SelfRef(i)
           /\ ExpRows[i].entry_id # ExpRows[i].supersedes_entry_id
           /\ SupOf(j) # EmptyStr
           /\ ~SelfRef(j)

\* C8 as stated: every row whose non-empty supersedes value is the ID of no
\* strictly earlier row gets exactly one SUPERSEDES_TARGET_NOT_PRIOR issue,
\* also when the value equals the row's own ID.
C8_Original ==
    exported.ran =>
        \A i \in DOMAIN ExpRows :
            (SupOf(i) # EmptyStr /\ ~HasPrior(i))
                => Cardinality(IssuesFor({"SUPERSEDES_TARGET_NOT_PRIOR"}, i)) = 1

\* C8 amended: a row gets exactly one SUPERSEDES_TARGET_NOT_PRIOR issue if
\* its non-empty supersedes value differs from its own ID and is the ID of no
\* strictly earlier row, and none otherwise (a self-referencing row gets
\* SUPERSEDES_SELF only).
C8_TargetNotPrior ==
    exported.ran =>
        \A i \in DOMAIN ExpRows :
            Cardinality(IssuesFor({"SUPERSEDES_TARGET_NOT_PRIOR"}, i))
                = IF SupOf(i) # EmptyStr /\ ~SelfRef(i) /\ ~HasPrior(i) THEN 1 ELSE 0

\* C8 witness: a forward reference (the target appears only later) and a
\* dangling reference.
C8_Witness ==
    /\ exported.ran
    /\ \E i, j, d \in DOMAIN ExpRows :
           /\ i < j
           /\ SupOf(i) = IdOf(j)
           /\ ~SelfRef(i)
           /\ ~HasPrior(i)
           /\ SupOf(d) # EmptyStr
           /\ \A k \in DOMAIN ExpRows : IdOf(k) # SupOf(d)

\* C9: a row gets no supersedes issue iff its supersedes value is empty, or
\* differs from its own ID and is the ID of a strictly earlier row; no row
\* gets more than one supersedes issue.
C9_SupersedesExact ==
    exported.ran =>
        \A i \in DOMAIN ExpRows :
            LET n == Cardinality(IssuesFor({"SUPERSEDES_SELF",
                                            "SUPERSEDES_TARGET_NOT_PRIOR"}, i))
            IN  /\ n <= 1
                /\ (n = 0) <=> (\/ SupOf(i) = EmptyStr
                                \/ (SupOf(i) # IdOf(i) /\ HasPrior(i)))

\* C9 witness: a row that supersedes the ID of the row before it and gets no
\* issue, and a self-referencing row with no earlier occurrence of its ID.
C9_Witness ==
    /\ exported.ran
    /\ \E i, s \in DOMAIN ExpRows :
           /\ SupOf(i) # EmptyStr
           /\ IssuesFor({"SUPERSEDES_SELF", "SUPERSEDES_TARGET_NOT_PRIOR"}, i) = {}
           /\ SelfRef(s)
           /\ ~HasPrior(s)

\* C10: a row gets one DUPLICATE_ID issue iff its non-empty ID occurred in an
\* earlier row; the issue cites the row number of the first occurrence; an
\* ID with n occurrences yields n-1 issues; empty IDs are never reported.
C10_DuplicateIds ==
    exported.ran =>
        /\ \A i \in DOMAIN ExpRows :
               LET d == IssuesFor({"DUPLICATE_ID"}, i)
               IN  IF IdOf(i) # EmptyStr /\ (\E j \in 1..(i - 1) : IdOf(j) = IdOf(i))
                   THEN /\ Cardinality(d) = 1
                        /\ \A j \in d :
                               /\ exported.issues[j].message.args[2] = IdOf(i)
                               /\ exported.issues[j].message.args[3]
                                      = SetMin({k \in DOMAIN ExpRows : IdOf(k) = IdOf(i)})
                   ELSE d = {}
        /\ \A k \in {IdOf(i) : i \in DOMAIN ExpRows} \ {EmptyStr} :
               Cardinality({j \in DOMAIN exported.issues :
                               /\ exported.issues[j].code = "DUPLICATE_ID"
                               /\ exported.issues[j].message.args[2] = k})
                   = Cardinality({i \in DOMAIN ExpRows : IdOf(i) = k}) - 1
        /\ \A j \in DOMAIN exported.issues :
               exported.issues[j].code = "DUPLICATE_ID"
                   => exported.issues[j].message.args[2] # EmptyStr

\* C10 witness: an ID with three occurrences, one of them padded.
C10_Witness ==
    /\ exported.ran
    /\ Len(ExpRows) >= 3
    /\ IdOf(1) = IdOf(2)
    /\ IdOf(2) = IdOf(3)
    /\ IdOf(1) # EmptyStr
    /\ ExpRows[1].entry_id # ExpRows[2].entry_id


(***************************************************************************)
(* Specification of the cleanup tool: main() is run, with or without       *)
(* --dry-run and --keep-run-history, on live files of a few rows.          *)
(***************************************************************************)
InitCleanup ==
    /\ ExportIdle
    /\ TicketsIdle
    /\ \E present \in SUBSET FileNames : FilesAre(live, present)
    /\ archive = EmptyDict
    /\ index = <<>>
    /\ clock = 0
    /\ last = NoInvocation

NextCleanup == Cleanup \/ CleanupMissingFile

SpecCleanup == InitCleanup /\ [][NextCleanup]_vars

(***************************************************************************)
(* Specification of the writes of a non-dry-run pass of the cleanup tool,  *)
(* with crashes: a pass is started when none is running.                   *)
(***************************************************************************)
InitCleanupWrites ==
    /\ ExportIdle
    /\ TicketsIdle
    /\ LiveFilesAre(live)
    /\ archive = EmptyDict
    /\ index = <<>>
    /\ clock = 0
    /\ last = NoInvocation

NextCleanupWrites ==
    \/ StartPass
    \/ CopyAsBackup
    \/ RewriteLive
    \/ ArchiveRows
    \/ WriteManifest
    \/ WriteIndex
    \/ Crash

SpecCleanupWrites == InitCleanupWrites /\ [][NextCleanupWrites]_vars

(***************************************************************************)
(* Specification of the cleanup tool on a run registry with lines shorter  *)
(* and longer than the header.                                             *)
(***************************************************************************)
InitRewrite ==
    /\ ExportIdle
    /\ TicketsIdle
    /\ \E rows \in BoundedSeq(RaggedRunRows, MaxRunRows) :
           live = [NoFiles EXCEPT ![RUN_REGISTRY] = rows]
    /\ archive = EmptyDict
    /\ index = <<>>
    /\ clock = 0
    /\ last = NoInvocation

NextRewrite == Cleanup

SpecRewrite == InitRewrite /\ [][NextRewrite]_vars

(***************************************************************************)
(* Specification of _split_by_active_runs on every handoff log of a few    *)
(* rows and every set of active runs.                                      *)
(***************************************************************************)
InitLogSplit ==
    /\ ExportIdle
    /\ TicketsIdle
    /\ \E rows \in BoundedSeq(LogRows, MaxLogRows) :
           live = [NoFiles EXCEPT ![HANDOFF_LOG_CSV] = rows]
    /\ archive = EmptyDict
    /\ index = <<>>
    /\ clock = 0
    /\ last = NoInvocation

NextLogSplit == SplitByActiveRuns

SpecLogSplit == InitLogSplit /\ [][NextLogSplit]_vars

(***************************************************************************)
(* Specification of _split_run_registry on every run registry of a few     *)
(* rows.                                                                   *)
(***************************************************************************)
InitRunSplit ==
    /\ ExportIdle
    /\ TicketsIdle
    /\ \E rows \in BoundedSeq(RunRows, MaxRunRows) :
           live = [NoFiles EXCEPT ![RUN_REGISTRY] = rows]
    /\ archive = EmptyDict
    /\ index = <<>>
    /\ clock = 0
    /\ last = NoInvocation

NextRunSplit == SplitRunRegistry

SpecRunSplit == InitRunSplit /\ [][NextRunSplit]_vars

(***************************************************************************)
(* Specification of _split_change_requests on every change-request queue   *)
(* of a few rows and every set of active runs.                             *)
(***************************************************************************)
InitReqSplit ==
    /\ ExportIdle
    /\ TicketsIdle
    /\ \E rows \in BoundedSeq(RequestRows, MaxReqRows) :
           live = [NoFiles EXCEPT ![CHANGE_REQUEST_QUEUE] = rows]
    /\ archive = EmptyDict
    /\ index = <<>>
    /\ clock = 0
    /\ last = NoInvocation

NextReqSplit == SplitChangeRequests

SpecReqSplit == InitReqSplit /\ [][NextReqSplit]_vars


(***************************************************************************)
(* Specification of the migration helper, run again and again on every     *)
(* change-request queue of a few rows.                                     *)
(***************************************************************************)
InitMigrate ==
    /\ ExportIdle
    /\ TicketsIdle
    /\ \E rows \in BoundedSeq(MigrationRows, MaxMigrationRows) :
           live = [NoFiles EXCEPT ![CHANGE_REQUEST_QUEUE] = rows]
    /\ archive = EmptyDict
    /\ index = <<>>
    /\ clock = 0
    /\ last = NoInvocation

NextMigrate == Migrate

SpecMigrate == InitMigrate /\ [][NextMigrate]_vars

(***************************************************************************)
(* Specification of the migration helper and the cleanup tool, run in any  *)
(* order on a change-request queue of a few rows whose run is active.      *)
(***************************************************************************)
InitMigrateCleanup ==
    /\ ExportIdle
    /\ TicketsIdle
    /\ \E rows \in BoundedSeq({row \in MigrationRows :
                                     /\ row.request_id \in {Legacy1, CR1}
                                     /\ row.supersedes_request_id \in {EmptyStr, CR1}},
                                MaxMigrationRows - 1) :
           live = [NoFiles EXCEPT
                      ![RUN_REGISTRY] = <<[run_id |-> R1, created_utc |-> T1,
                                           status |-> StatusActivePadded]>>,
                      ![CHANGE_REQUEST_QUEUE] = rows]
    /\ archive = EmptyDict
    /\ index = <<>>
    /\ clock = 0
    /\ last = NoInvocation

NextMigrateCleanup == Migrate \/ Cleanup

SpecMigrateCleanup == InitMigrateCleanup /\ [][NextMigrateCleanup]_vars

(***************************************************************************)
(* Specification of the export tool on every handoff log of a few rows     *)
(* with JSON-list columns, with and without --strict.                      *)
(***************************************************************************)
InitExportJson ==
    /\ CleanupIdle
    /\ TicketsIdle
    /\ events \in BoundedSeq(JsonEventRows, MaxJsonRows)
    /\ exported = NotExported

NextExportJson == ExportRecord

SpecExportJson == InitExportJson /\ [][NextExportJson]_vars

(***************************************************************************)
(* Specification of the export tool on every run registry and             *)
(* change-request queue of a few rows, for the summary it builds.          *)
(***************************************************************************)
StatusActive == <<"A", "c", "t", "i", "v", "e">>

SummaryRunRows ==
    [run_id : {R1, R2Padded}, created_utc : {T1},
     status : {StatusActive, StatusActivePadded, StatusResolved}]

SummaryRequestRows ==
    [request_id : {CR1}, run_id : {R1}, status : {StatusOpenPadded, StatusDone},
     supersedes_request_id : {EmptyStr}, statement : {EmptyStr},
     priority : {<<" ", "p", "1">>, <<"P", "2">>},
     assignee : {<<" ">>, <<"a">>}]

MaxSummaryRows == 2

InitSummary ==
    /\ TicketsIdle
    /\ events = <<>>
    /\ exported = NotExported
    /\ \E runs \in BoundedSeq(SummaryRunRows, MaxSummaryRows) :
       \E requests \in BoundedSeq(SummaryRequestRows, MaxSummaryRows) :
           live = [NoFiles EXCEPT ![RUN_REGISTRY] = runs,
                                  ![CHANGE_REQUEST_QUEUE] = requests]
    /\ archive = EmptyDict
    /\ index = <<>>
    /\ clock = 0
    /\ last = NoInvocation

NextSummary == ExportRecord

SpecSummary == InitSummary /\ [][NextSummary]_vars

(***************************************************************************)
(* Specification of _write_csv on every run registry of a few rows, with   *)
(* a crash of the process between any two of its writes.                   *)
(***************************************************************************)
InitWriteCsv ==
    /\ ExportIdle
    /\ TicketsIdle
    /\ \E rows \in BoundedSeq(RunRows, MaxRunRows) :
           live = [NoFiles EXCEPT ![RUN_REGISTRY] = rows]
    /\ archive = EmptyDict
    /\ index = <<>>
    /\ clock = 0
    /\ last = NoInvocation

NextWriteCsv == WriteCsvCall \/ OpenTmp \/ WriteHeader \/ WriteRow \/ ReplaceTmp \/ Crash

SpecWriteCsv == InitWriteCsv /\ [][NextWriteCsv]_vars

(***************************************************************************)
(* Specification of the ticket tool: create, from-review, respond and list *)
(* are run one after the other, in any order, on ticket logs that start    *)
(* empty; the review run RR1 has a decision that asks for changes and two  *)
(* evidence rows that need a ticket, the review run RR2 has no decision.   *)
(***************************************************************************)
InitTickets ==
    /\ ExportIdle
    /\ CleanupIdle
    /\ logs = [NoLogs EXCEPT
                  ![DECISION_DISPOSITION_PATH] =
                      <<[review_run_id |-> "RR1", outcome |-> "revise"]>>,
                  ![EVIDENCE_SUPPORT_PATH] =
                      <<[review_run_id |-> "RR1", claim_id |-> "CL1",
                         support_status |-> "unsupported"],
                        [review_run_id |-> "RR1", claim_id |-> "CL1",
                         support_status |-> "caveated"]>>]
    /\ appended = <<>>
    /\ today = 1
    /\ ran = NoCommand

NextTickets == CreateTicket \/ FromReview \/ Respond \/ ListTickets

SpecTickets == InitTickets /\ [][NextTickets]_vars

(***************************************************************************)
(* Specification of from-review on every decision log and evidence log of  *)
(* a few rows, the ticket queue empty at first.                            *)
(***************************************************************************)
InitFromReview ==
    /\ ExportIdle
    /\ CleanupIdle
    /\ \E decisions \in BoundedSeq(DecisionRows, MaxDecisionRows) :
       \E evidence \in BoundedSeq(EvidenceRows, MaxEvidenceRows) :
           logs = [NoLogs EXCEPT ![DECISION_DISPOSITION_PATH] = decisions,
                                 ![EVIDENCE_SUPPORT_PATH] = evidence]
    /\ appended = <<>>
    /\ today = 1
    /\ ran = NoCommand

NextFromReview == FromReview

SpecFromReview == InitFromReview /\ [][NextFromReview]_vars

(***************************************************************************)
(* Properties of the ticket tool.                                          *)
(***************************************************************************)
Queue == logs[TICKET_QUEUE_PATH]

Responses == logs[TICKET_RESPONSES_PATH]

\* The row of the ticket logs that was appended as the p-th.
AppendedRow(p) == logs[appended[p][1]][appended[p][2]]

\* The positions, in the order of appending, of the rows that carry a status
\* of the ticket: its rows in the queue, its responses with a status_after.
StatusRowsOf(ticket_id) ==
    {p \in 1..Len(appended) :
        /\ AppendedRow(p).ticket_id = ticket_id
        /\ appended[p][1] = TICKET_RESPONSES_PATH => AppendedRow(p).status_after # ""}

\* The status carried by the row of the ticket that was appended last.
StatusAppendedLast(ticket_id) ==
    LET p == SetMax(StatusRowsOf(ticket_id))
    IN  IF appended[p][1] = TICKET_QUEUE_PATH THEN AppendedRow(p).status
        ELSE AppendedRow(p).status_after

\* C17 as stated: the status list reports for a ticket is the status carried
\* by whichever was appended later, the ticket's latest row in the queue or
\* its most recent response with a status_after.
C17_Original ==
    (ran.op = "list" /\ ran.args.status = "") =>
        \A k \in 1..Len(ran.out) :
            ran.out[k].status = StatusAppendedLast(ran.out[k].ticket_id)

\* The highest numeric suffix among the ticket IDs of the day in rows, 0 when
\* there is none.
HighestSuffix(rows, date_part) ==
    SetMax({0} \cup
           {n \in 1..9 : \E i \in 1..Len(rows) :
                rows[i].ticket_id \in {Prefix(date_part) \o Decimal(n),
                                       Prefix(date_part) \o ZeroPad(Decimal(n), 3)}})

\* C18: every ticket ID that create or from-review allocates is
\* RRC-<YYYYMMDD>-<NNN> with NNN one more than the highest numeric suffix
\* among the IDs of the same day already in the queue (001 when there is
\* none), and is the ticket_id of no row already in the queue.
C18_TicketIds ==
    [][((ran'.op = "create" /\ ran'.args.ticket_id = EmptyStr) \/ ran'.op = "from-review") =>
          /\ Len(logs'[TICKET_QUEUE_PATH]) = Len(Queue) + Len(ran'.out)
          /\ \A k \in 1..Len(ran'.out) :
                 LET at      == Len(Queue) + k
                     earlier == SubSeq(logs'[TICKET_QUEUE_PATH], 1, at - 1)
                     id      == logs'[TICKET_QUEUE_PATH][at].ticket_id
                     date    == DateParts[today']
                 IN  /\ id = ran'.out[k]
                     /\ id = Prefix(date) \o ZeroPad(Decimal(HighestSuffix(earlier, date) + 1), 3)
                     /\ Len(id) = Len(Prefix(date)) + 3
                     /\ \A i \in 1..Len(earlier) : earlier[i].ticket_id # id]_vars

\* C18 witness: create has allocated the ID 003 of the first day for a queue
\* that held the ID 002 of that day, given with --ticket-id, and an ID of that
\* day whose suffix is no number.
C18_Witness ==
    /\ ran.op = "create"
    /\ ran.args.ticket_id = EmptyStr
    /\ ran.out = <<Prefix(DateParts[1]) \o <<"0", "0", "3">>>>
    /\ Len(Queue) = 3
    /\ Queue[3].ticket_id = Prefix(DateParts[1]) \o <<"0", "0", "3">>
    /\ {Queue[1].ticket_id, Queue[2].ticket_id}
           = {Prefix(DateParts[1]) \o <<"0", "0", "2">>, Prefix(DateParts[1]) \o <<"x">>}

\* The decision rows of a review run, in file order.
DecisionsOf(review_run_id) ==
    SelectSeq(logs[DECISION_DISPOSITION_PATH],
              LAMBDA row : row.review_run_id = review_run_id)

\* The evidence rows of a review run that need a ticket, in file order.
EvidenceToTicket(review_run_id) ==
    SelectSeq(logs[EVIDENCE_SUPPORT_PATH],
              LAMBDA row : /\ row.review_run_id = review_run_id
                           /\ row.support_status
                                  \in {"unsupported", "caveated", "aspirational"})

\* The rows of the queue after the step are those before it, followed by one
\* open ticket for every evidence row of wanted, in the order of wanted.
TicketsAppendedFor(review_run_id, wanted) ==
    LET after == logs'[TICKET_QUEUE_PATH]
    IN  /\ Len(after) = Len(Queue) + Len(wanted)
        /\ SubSeq(after, 1, Len(Queue)) = Queue
        /\ \A k \in 1..Len(wanted) :
               LET row == after[Len(Queue) + k]
               IN  /\ row.review_run_id = review_run_id
                   /\ row.claim_id = wanted[k].claim_id
                   /\ row.status = "open"
                   /\ row.priority = IF wanted[k].support_status = "unsupported"
                                     THEN "high" ELSE "medium"

\* C19 as stated: from-review appends no ticket when the last decision row of
\* the run has outcome approved_as_is; otherwise it appends one open ticket
\* for every evidence row of the run that is unsupported, caveated or
\* aspirational, in file order, with priority high for unsupported and medium
\* for the others.
C19_Original ==
    [][ran'.op = "from-review" =>
          LET run       == ran'.args.review_run_id
              decisions == DecisionsOf(run)
          IN  IF decisions # <<>> /\ decisions[Len(decisions)].outcome = "approved_as_is"
              THEN TicketsAppendedFor(run, <<>>)
              ELSE TicketsAppendedFor(run, EvidenceToTicket(run))]_vars

\* C19: from-review for a run that has no decision row fails and appends no
\* ticket; for a run whose last decision row has outcome approved_as_is it
\* appends no ticket; for every other run it appends one open ticket for
\* every evidence row of the run that is unsupported, caveated or
\* aspirational, in file order, with priority high for unsupported and medium
\* for the others.
C19_FromReview ==
    [][ran'.op = "from-review" =>
          LET run       == ran'.args.review_run_id
              decisions == DecisionsOf(run)
          IN  IF decisions = <<>>
              THEN ran'.error /\ TicketsAppendedFor(run, <<>>)
              ELSE /\ ~ran'.error
                   /\ IF decisions[Len(decisions)].outcome = "approved_as_is"
                      THEN TicketsAppendedFor(run, <<>>)
                      ELSE TicketsAppendedFor(run, EvidenceToTicket(run))]_vars

\* C19 witness: from-review has appended a ticket of priority high and one of
\* priority medium for a run whose first decision was approved_as_is and
\* whose last one was not, and none for the supported evidence row between.
C19_Witness ==
    /\ ran.op = "from-review"
    /\ ran.args.review_run_id = "RR1"
    /\ logs[DECISION_DISPOSITION_PATH]
           = <<[review_run_id |-> "RR1", outcome |-> "approved_as_is"],
               [review_run_id |-> "RR1", outcome |-> "revise"]>>
    /\ Len(logs[EVIDENCE_SUPPORT_PATH]) = 3
    /\ logs[EVIDENCE_SUPPORT_PATH][2].support_status = "supported"
    /\ Len(Queue) = 2
    /\ Queue[1].priority = "high"
    /\ Queue[2].priority = "medium"
    /\ ran.before[TICKET_QUEUE_PATH] = <<>>

\* before is the beginning of after.
StartsWith(after, before) ==
    /\ Len(before) <= Len(after)
    /\ SubSeq(after, 1, Len(before)) = before

\* C20: every invocation of the ticket tool leaves the rows of the ticket
\* queue and of the responses log in place, unchanged and in order, each log
\* beginning with what it was before; create and from-review change only the
\* queue, respond changes only the responses log, list changes neither.
C20_AppendOnly ==
    [][/\ StartsWith(logs'[TICKET_QUEUE_PATH], logs[TICKET_QUEUE_PATH])
       /\ StartsWith(logs'[TICKET_RESPONSES_PATH], logs[TICKET_RESPONSES_PATH])
       /\ ran'.op \in {"create", "from-review"}
              => logs'[TICKET_RESPONSES_PATH] = logs[TICKET_RESPONSES_PATH]
       /\ ran'.op = "respond" => logs'[TICKET_QUEUE_PATH] = logs[TICKET_QUEUE_PATH]
       /\ ran'.op = "list" => /\ logs'[TICKET_QUEUE_PATH] = logs[TICKET_QUEUE_PATH]
                              /\ logs'[TICKET_RESPONSES_PATH] = logs[TICKET_RESPONSES_PATH]
      ]_vars

\* C20 witness: from-review has appended tickets behind a ticket made by
\* create, with a response already in the responses log, and a later respond
\* has appended a second response.
C20_Witness ==
    /\ ran.op = "respond"
    /\ ~ran.error
    /\ Len(Responses) = 2
    /\ Len(ran.before[TICKET_RESPONSES_PATH]) = 1
    /\ Len(Queue) = 3
    /\ Queue[1].claim_id = "CL1"
    /\ \E k \in 1..Len(appended) - 2 :
           /\ appended[k] = <<TICKET_RESPONSES_PATH, 1>>
           /\ appended[k + 1] = <<TICKET_QUEUE_PATH, 2>>
           /\ appended[k + 2] = <<TICKET_QUEUE_PATH, 3>>

C22_StrictExit ==
    exported.ran =>
        /\ Range(exported.written) = {"oracle_record.json", "oracle_record.md",
                                      "manifest.json", "oracle_record.sha256"}
        /\ Len(exported.printed) = 1
        /\ exported.printed[1].issue_count = Len(exported.issues)
        /\ exported.exit \in {0, 1}
        /\ exported.exit = 1 <=> (exported.strict /\ Len(exported.issues) > 0)

\* C22 witness: a strict run has returned 1 on a log with an invalid JSON
\* cell, a duplicate ID and a self-reference, its files written.
C22_Witness ==
    /\ exported.ran
    /\ exported.strict
    /\ exported.exit = 1
    /\ exported.written # <<>>
    /\ {exported.issues[j].code : j \in DOMAIN exported.issues}
           = {"JSON_FIELD_INVALID", "DUPLICATE_ID", "SUPERSEDES_SELF"}

\* The JSON_FIELD_INVALID issues the last export reported for column k of
\* row i.
JsonIssuesFor(i, k) ==
    {j \in DOMAIN exported.issues :
        /\ exported.issues[j].code = "JSON_FIELD_INVALID"
        /\ exported.issues[j].file = HANDOFF_LOG
        /\ exported.issues[j].row_number = i
        /\ exported.issues[j].field = k}

\* C23: the export normalizes every row of the log. For every row and every
\* JSON-list column, a cell that is empty gives the empty list and a cell
\* that holds a JSON array gives the parsed list, with no issue and no _raw
\* column; every other cell gives exactly one JSON_FIELD_INVALID issue that
\* names the file, the column and the row, the text of the cell under the
\* _raw column and no parsed list.
C23_JsonListFields ==
    exported.ran =>
        /\ Len(exported.events) = Len(events)
        /\ \A i \in 1..Len(events) : \A k \in {"blocking_flags", "input_refs"} :
               LET cell == events[i][k]
                   nr   == exported.events[i]
               IN  IF \E valid \in ValidJsonCells : valid[1] = cell
                   THEN /\ nr[k] = (CHOOSE valid \in ValidJsonCells : valid[1] = cell)[2]
                        /\ JsonIssuesFor(i, k) = {}
                        /\ RawField(k) \notin DOMAIN nr
                   ELSE /\ Cardinality(JsonIssuesFor(i, k)) = 1
                        /\ RawField(k) \in DOMAIN nr
                        /\ nr[RawField(k)] = cell
                        /\ nr[k] = cell

\* C23 witness: the export has run on a log whose first row has an invalid
\* blocking_flags cell and whose second row has a JSON array in it; the
\* first row keeps the text under blocking_flags_raw, the second row has the
\* parsed list.
C23_Witness ==
    /\ exported.ran
    /\ Len(events) = 2
    /\ events[1].blocking_flags = <<"[", "o", "o", "p", "s">>
    /\ "blocking_flags_raw" \in DOMAIN exported.events[1]
    /\ exported.events[1].blocking_flags_raw = <<"[", "o", "o", "p", "s">>
    /\ Cardinality(JsonIssuesFor(1, "blocking_flags")) = 1
    /\ exported.events[2].blocking_flags
           = <<"list", <<"list", <<"int", "1">>>>, <<"int", "2">>>>
    /\ "blocking_flags_raw" \notin DOMAIN exported.events[2]

(***************************************************************************)
(* Properties of the migration helper.                                     *)
(***************************************************************************)
\* The trimmed request IDs of rows, and the last row of an ID.
RequestIdsOf(rows) ==
    {Strip(rows[i].request_id) : i \in 1..Len(rows)} \ {EmptyStr}

LatestRowOf(rows, rid) ==
    rows[SetMax({i \in 1..Len(rows) : Strip(rows[i].request_id) = rid})]

\* rid has the form CR-NNNN-TEAM, and its form CR-TEAM-NNNN.
IsLegacyId(rid) ==
    /\ Len(rid) > 8
    /\ rid[3] = "-"
    /\ rid[8] = "-"
    /\ \A i \in 4..7 : rid[i] \in Range(Digits)
    /\ \A i \in 9..Len(rid) : rid[i] \notin Range(Digits)

CanonicalForm(rid) ==
    SubSeq(rid, 1, 3) \o SubSeq(rid, 9, Len(rid)) \o <<"-">> \o SubSeq(rid, 4, 7)

\* The rows a step has put behind the rows of the change-request queue.
MigratedRows ==
    SubSeq(live'[CHANGE_REQUEST_QUEUE], Len(live[CHANGE_REQUEST_QUEUE]) + 1,
           Len(live'[CHANGE_REQUEST_QUEUE]))

\* A row that gives a request another ID.
IsNormalizationRow(row) == Strip(row.request_id) # Strip(row.supersedes_request_id)

QueueSupersedesIssues(rows) ==
    validate_supersedes("data/team_ops/change_request_queue.csv",
                        normalize_rows("data/team_ops/change_request_queue.csv", rows, <<>>).out,
                        "request_id", "supersedes_request_id", <<>>)

\* C27 as stated: after a run of the migration helper, validate_supersedes
\* reports no issue for a row the run has appended.
C27_Original ==
    [][ran'.op = "migrate" =>
          LET issues == QueueSupersedesIssues(live'[CHANGE_REQUEST_QUEUE])
          IN  \A k \in 1..Len(issues) :
                  issues[k]["_row_number"] <= Len(live[CHANGE_REQUEST_QUEUE])]_vars

\* The part of C27 that holds: no row of step 1 of the migration helper gets
\* an issue from validate_supersedes.
C27_NormalizationRows ==
    [][ran'.op = "migrate" =>
          LET issues == QueueSupersedesIssues(live'[CHANGE_REQUEST_QUEUE])
              rows   == live'[CHANGE_REQUEST_QUEUE]
          IN  \A k \in 1..Len(issues) :
                  \/ issues[k]["_row_number"] <= Len(live[CHANGE_REQUEST_QUEUE])
                  \/ /\ ~IsNormalizationRow(rows[issues[k]["_row_number"]])
                     /\ issues[k].code = "SUPERSEDES_SELF"]_vars

\* C28 as stated: a run of the migration helper that directly follows
\* another run appends nothing.
C28_Original ==
    [][(ran.op = "migrate" /\ ran'.op = "migrate"
            /\ live[CHANGE_REQUEST_QUEUE] = ran.before \o ran.out)
          => live'[CHANGE_REQUEST_QUEUE] = live[CHANGE_REQUEST_QUEUE]]_vars

\* The part of C28 that holds: on a queue without a legacy ID, a run that
\* directly follows another run appends nothing.
C28_DuplicatesOnly ==
    [][(ran.op = "migrate" /\ ran'.op = "migrate"
            /\ live[CHANGE_REQUEST_QUEUE] = ran.before \o ran.out
            /\ \A rid \in RequestIdsOf(ran.before) : ~IsLegacyId(rid))
          => live'[CHANGE_REQUEST_QUEUE] = live[CHANGE_REQUEST_QUEUE]]_vars

\* C29 as stated: when a cleanup pass that writes follows a run of the
\* migration helper, every request whose latest row has an active status and
\* an active run, and which no row of another request_id supersedes, still
\* has a row in the live change-request queue after the pass.
C29_Original ==
    [][(/\ Len(index') = Len(index) + 1
        /\ ran.op = "migrate"
        /\ live[CHANGE_REQUEST_QUEUE] = ran.before \o ran.out)
          => LET rows == live[CHANGE_REQUEST_QUEUE]
                 kept == live'[CHANGE_REQUEST_QUEUE]
             IN  \A rid \in RequestIdsOf(rows) :
                     LET latest == LatestRowOf(rows, rid)
                     IN  (/\ _normalize(latest.status) \in last'.args.active_request_statuses
                          /\ Strip(latest.run_id) \in last'.active_runs
                          /\ ~\E j \in 1..Len(rows) :
                                 /\ Strip(rows[j].supersedes_request_id) = rid
                                 /\ Strip(rows[j].request_id) # rid)
                         => rid \in RequestIdsOf(kept)]_vars

\* The latest row of run ID rid in the run registry, of request ID rid in the
\* change-request queue.
LatestRun(rid) ==
    live[RUN_REGISTRY][SetMax({i \in 1..Len(live[RUN_REGISTRY]) :
                                  Strip(live[RUN_REGISTRY][i].run_id) = rid})]

\* C24 as stated, for the export summary: a run is in active_runs iff the
\* status of its latest row, trimmed and in lower case, is an active run
\* status; a request is in the open-P1 grouping iff its priority is P1 and
\* the status of its latest row, trimmed and in lower case, is an active
\* request status.
C24_Original ==
    exported.ran =>
        LET summary == exported.summary[1]
            rids    == {Strip(live[RUN_REGISTRY][i].run_id) :
                           i \in 1..Len(live[RUN_REGISTRY])} \ {EmptyStr}
            reqs    == RequestIdsOf(live[CHANGE_REQUEST_QUEUE])
            grouped == UNION {summary.open_p1_by_assignee[a] :
                                 a \in DOMAIN summary.open_p1_by_assignee}
        IN  /\ \A rid \in rids :
                   rid \in summary.active_runs
                       <=> Lower(Strip(LatestRun(rid).status)) \in ACTIVE_RUN_STATUSES_DEFAULT
            /\ \A rid \in reqs :
                   LET latest == LatestRowOf(live[CHANGE_REQUEST_QUEUE], rid)
                   IN  rid \in grouped
                           <=> /\ Lower(Strip(latest.status)) \in ACTIVE_REQUEST_STATUSES_DEFAULT
                               /\ Strip(latest.priority) \in {<<"P", "1">>, <<"p", "1">>}

\* The part of C24 that holds in the export summary: the open-P1 grouping
\* trims the status and ignores its case, and active_runs ignores the case
\* of a status that has no blank around it.
C24_ExportTrimmedPart ==
    exported.ran =>
        LET summary == exported.summary[1]
            rids    == {Strip(live[RUN_REGISTRY][i].run_id) :
                           i \in 1..Len(live[RUN_REGISTRY])} \ {EmptyStr}
            reqs    == RequestIdsOf(live[CHANGE_REQUEST_QUEUE])
            grouped == UNION {summary.open_p1_by_assignee[a] :
                                 a \in DOMAIN summary.open_p1_by_assignee}
        IN  /\ \A rid \in rids :
                   LatestRun(rid).status = Strip(LatestRun(rid).status) =>
                       (rid \in summary.active_runs
                           <=> Lower(LatestRun(rid).status) \in ACTIVE_RUN_STATUSES_DEFAULT)
            /\ \A rid \in reqs :
                   LET latest == LatestRowOf(live[CHANGE_REQUEST_QUEUE], rid)
                   IN  rid \in grouped
                           <=> /\ Lower(Strip(latest.status)) \in ACTIVE_REQUEST_STATUSES_DEFAULT
                               /\ Strip(latest.priority) \in {<<"P", "1">>, <<"p", "1">>}

\* C25: from the call of _write_csv on, whether the call runs, has crashed
\* or has returned, the live file exists and holds either all the rows it
\* held at the call or all the rows of the keep list; it holds the keep
\* list once the call has returned.
C25_AtomicRewrite ==
    last.op = "_write_csv" =>
        LET old == last.rows[RUN_REGISTRY]
            new == _write_csv(Header(RUN_REGISTRY), last.split_map[RUN_REGISTRY].keep)
        IN  /\ RUN_REGISTRY \in DOMAIN live
            /\ live[RUN_REGISTRY] \in {old, new}
            /\ (last.pc = Returned /\ ~last.crashed) => live[RUN_REGISTRY] = new
            /\ last.pc.phase \in {"open", "header", "rows"} => live[RUN_REGISTRY] = old

\* C25 witness: the process has died while _write_csv was writing the second
\* of two rows to keep, out of three; the temporary file holds one row, the
\* live file its three rows.
C25_Witness ==
    /\ last.op = "_write_csv"
    /\ last.crashed
    /\ last.pc = [phase |-> "rows", k |-> 2]
    /\ Len(last.split_map[RUN_REGISTRY].keep) = 2
    /\ Len(live[RUN_REGISTRY]) = 3
    /\ TmpPath(RUN_REGISTRY) \in DOMAIN live
    /\ Len(live[TmpPath(RUN_REGISTRY)]) = 1

(***************************************************************************)
(* Properties of the cleanup tool.                                         *)
(***************************************************************************)
KeptAt(name) == Range(last.split_map[name].keep_at)

ArchivedAt(name) == Range(last.split_map[name].archive_at)

Positions(name) == 1..Len(last.rows[name])

\* Row i of the change-request queue is superseded by another row of the file.
SupersededByOther(rows, i) ==
    \E j \in (1..Len(rows)) \ {i} :
        /\ Strip(rows[j].supersedes_request_id) # EmptyStr
        /\ Strip(rows[j].supersedes_request_id) = Strip(rows[i].request_id)

\* C1 as stated: a change-request row is kept iff its status is in the
\* active-request-status set, its run_id is in the active-run set and its
\* request_id is not the supersedes_request_id of any OTHER row; every other
\* row is archived.
C1_Original ==
    last.op = "_split_change_requests" =>
        LET rows == last.rows[CHANGE_REQUEST_QUEUE]
        IN  \A i \in Positions(CHANGE_REQUEST_QUEUE) :
                LET keep == /\ _normalize(rows[i].status) \in last.args.active_request_statuses
                            /\ Strip(rows[i].run_id) \in last.active_runs
                            /\ ~SupersededByOther(rows, i)
                IN  /\ (i \in KeptAt(CHANGE_REQUEST_QUEUE)) <=> keep
                    /\ (i \in ArchivedAt(CHANGE_REQUEST_QUEUE)) <=> ~keep

\* C26 as stated: for every request_id that has a row in the keep list of
\* the change-request queue, the last kept row of that request_id is the last
\* row of that request_id in the file.
C26_Original ==
    last.op = "_split_change_requests" =>
        LET rows == last.rows[CHANGE_REQUEST_QUEUE]
            of(rid) == {i \in Positions(CHANGE_REQUEST_QUEUE) : Strip(rows[i].request_id) = rid}
        IN  \A rid \in {Strip(rows[i].request_id) : i \in KeptAt(CHANGE_REQUEST_QUEUE)} :
                SetMax(of(rid) \cap KeptAt(CHANGE_REQUEST_QUEUE)) = SetMax(of(rid))

\* The last row of the run registry, in file order, that carries run_id k.
LastRowOf(rows, k) == SetMax({i \in 1..Len(rows) : Strip(rows[i].run_id) = k})

\* C2 as stated: a run_id is in the active-run set iff the LAST row of the
\* file carrying it has a status in the active-run-status set, whatever the
\* created_utc values are.
C2_Original ==
    last.op = "_split_run_registry" =>
        LET rows == last.rows[RUN_REGISTRY]
            ids  == {Strip(rows[i].run_id) : i \in 1..Len(rows)} \ {EmptyStr}
        IN  last.active_runs =
                {k \in ids : _normalize(rows[LastRowOf(rows, k)].status)
                                 \in last.args.active_run_statuses}

\* C3 as stated: every row whose run_id is not in the active-run set is
\* archived; by default exactly one row, the latest one of the file, is kept
\* for each active run and its other rows are archived; with
\* --keep-run-history every row of every active run is kept, none archived.
C3_Original ==
    last.op = "_split_run_registry" =>
        LET rows == last.rows[RUN_REGISTRY]
            of(k) == {i \in 1..Len(rows) : Strip(rows[i].run_id) = k}
        IN  /\ \A i \in Positions(RUN_REGISTRY) :
                   Strip(rows[i].run_id) \notin last.active_runs
                       => i \in ArchivedAt(RUN_REGISTRY) /\ i \notin KeptAt(RUN_REGISTRY)
            /\ \A k \in last.active_runs :
                   IF last.args.keep_run_history
                   THEN /\ of(k) \subseteq KeptAt(RUN_REGISTRY)
                        /\ of(k) \cap ArchivedAt(RUN_REGISTRY) = {}
                   ELSE /\ of(k) \cap KeptAt(RUN_REGISTRY) = {LastRowOf(rows, k)}
                        /\ of(k) \ {LastRowOf(rows, k)} \subseteq ArchivedAt(RUN_REGISTRY)

\* C11: when a required file is missing the tool exits with code 2 and has
\* written nothing (live files, archive tree and archive index are as
\* before); in every other case, dry-run or not, it exits with code 0.
C11_MissingFile ==
    [][last'.op = "cleanup" =>
          IF DOMAIN live # FileNames
          THEN last'.exit = 2 /\ UNCHANGED <<live, archive, index>>
          ELSE last'.exit = 0]_vars

\* C11 witness: the tool has exited with code 2, three files exist and hold
\* rows.
C11_Witness ==
    /\ last.op = "cleanup"
    /\ last.exit = 2
    /\ Cardinality(DOMAIN live) = 3
    /\ \E name \in DOMAIN live : live[name] # <<>>
    /\ archive = EmptyDict
    /\ index = <<>>

\* C12: a --dry-run pass leaves the live files, the archive tree and the
\* archive index unchanged, and the keep/archive counts and the active-run
\* set it reports are the ones of a non-dry-run pass on the same files with
\* the same options.
C12_DryRun ==
    [][(last'.op = "cleanup" /\ last'.exit = 0 /\ last'.args.dry_run) =>
          /\ UNCHANGED <<live, archive, index>>
          /\ LET wet   == [last'.args EXCEPT !.dry_run = FALSE]
                 p     == Partition(live, wet)
                 s     == Summary(live, wet, p.split_map, p.active_runs, last'.timestamp)
                 shown == last'.summary[1]
             IN  /\ shown.dry_run
                 /\ shown.counts = s.counts
                 /\ shown.active_run_ids = s.active_run_ids
                 /\ \A name \in FileNames :
                        /\ shown.counts[name].before = Len(live[name])
                        /\ shown.counts[name].keep = Len(p.split_map[name].keep)
                        /\ shown.counts[name].archive = Len(p.split_map[name].archive)]_vars

\* C12 witness: a dry-run pass has reported rows to archive and rows to keep,
\* the live files hold all the rows it read and nothing was ever archived.
C12_Witness ==
    /\ last.op = "cleanup"
    /\ last.exit = 0
    /\ last.args.dry_run
    /\ \E name \in FileNames : last.summary[1].counts[name].archive > 0
    /\ \E name \in FileNames : last.summary[1].counts[name].keep > 0
    /\ live = last.rows
    /\ archive = EmptyDict
    /\ index = <<>>

\* The backup of a live file in the directory of the last pass, <<>> when
\* there is none.
BackupOf(name) ==
    IF last.timestamp \in DOMAIN archive /\ name \in DOMAIN archive[last.timestamp].backup
    THEN <<archive[last.timestamp].backup[name]>>
    ELSE <<>>

\* C13: in a non-dry-run pass no live file is rewritten before all four
\* backups are complete, and each backup holds what its live file held at
\* the start of the pass; so at every point of the pass, a crash between two
\* writes included, every original row is in a backup or still in its live
\* file.
C13_BackupFirst ==
    (last.op = "cleanup" /\ last.pc # Returned) =>
        IF last.pc.phase = "backup"
        THEN /\ live = last.rows
             /\ \A k \in 1..(last.pc.k - 1) :
                    BackupOf(required_files[k]) = <<last.rows[required_files[k]]>>
        ELSE \A name \in FileNames : BackupOf(name) = <<last.rows[name]>>

\* C13 witness: the process died after it rewrote the run registry, with a
\* row removed, and before it wrote the archived rows; the row is in the
\* backup only.
C13_Witness ==
    /\ last.op = "cleanup"
    /\ last.crashed
    /\ last.pc = [phase |-> "archive", k |-> 1]
    /\ Len(live[RUN_REGISTRY]) < Len(last.rows[RUN_REGISTRY])
    /\ last.timestamp \in DOMAIN archive
    /\ RUN_REGISTRY \notin DOMAIN archive[last.timestamp].archived_rows
    /\ BackupOf(RUN_REGISTRY) = <<last.rows[RUN_REGISTRY]>>

\* C14: every non-dry-run pass leaves in archive_index.csv the rows it held
\* before, unchanged and in the same order, followed by one new row whose
\* four counts are the sizes of the pass's archive lists and whose
\* active_run_ids is the pass's active-run set; after n non-dry-run passes
\* the index has n rows.
C14_IndexAppendOnly ==
    [][(last'.op = "cleanup" /\ last'.exit = 0) =>
          /\ Len(index') = last'.passes
          /\ ~last'.args.dry_run =>
                 /\ Len(index') = Len(index) + 1
                 /\ SubSeq(index', 1, Len(index)) = index
                 /\ LET row == index'[Len(index')]
                    IN  /\ row.run_rows_archived
                               = Len(last'.split_map[RUN_REGISTRY].archive)
                        /\ row.request_rows_archived
                               = Len(last'.split_map[CHANGE_REQUEST_QUEUE].archive)
                        /\ row.handoff_rows_archived
                               = Len(last'.split_map[HANDOFF_LOG_CSV].archive)
                        /\ row.decision_rows_archived
                               = Len(last'.split_map[DECISION_LOG].archive)
                        /\ Range(row.active_run_ids) = last'.active_runs
                        /\ Len(row.active_run_ids) = Cardinality(last'.active_runs)]_vars

\* C14 witness: the second non-dry-run pass has appended a row with a count
\* above zero and an active run to an index that held the row of the first.
C14_Witness ==
    /\ last.op = "cleanup"
    /\ ~last.args.dry_run
    /\ last.passes = 2
    /\ Len(index) = 2
    /\ index[2].run_rows_archived > 0
    /\ index[2].active_run_ids # <<>>
    /\ index[1] # index[2]

\* C15 as stated: after a non-dry-run pass, reading a live file back gives
\* exactly the keep list computed for it: the same rows with the same field
\* values, in the same order.
C15_Original ==
    (last.op = "cleanup" /\ last.exit = 0 /\ ~last.args.dry_run) =>
        \A name \in FileNames : live[name] = last.split_map[name].keep

\* C16: in the handoff-log and decision-log split a row is kept iff its
\* trimmed run_id is non-empty and in the active-run set, every other row is
\* archived, and the kept rows are in file order.
C16_LogSplit ==
    last.op = "_split_by_active_runs" =>
        LET rows  == last.rows[HANDOFF_LOG_CSV]
            split == last.split_map[HANDOFF_LOG_CSV]
        IN  /\ \A i \in Positions(HANDOFF_LOG_CSV) :
                   LET keep == /\ Strip(rows[i].run_id) # EmptyStr
                               /\ Strip(rows[i].run_id) \in last.active_runs
                   IN  /\ (i \in KeptAt(HANDOFF_LOG_CSV)) <=> keep
                       /\ (i \in ArchivedAt(HANDOFF_LOG_CSV)) <=> ~keep
            /\ \A k \in 1..(Len(split.keep_at) - 1) : split.keep_at[k] < split.keep_at[k + 1]
            /\ split.keep = RowsAt(rows, split.keep_at)
            /\ Len(split.keep) + Len(split.archive) = Len(rows)

\* C16 witness: a log of three rows, the first with a run_id that is in the
\* active-run set once trimmed, the second with an empty run_id, the third
\* with an active run_id: the first and the third are kept, in that order.
C16_Witness ==
    /\ last.op = "_split_by_active_runs"
    /\ Len(last.rows[HANDOFF_LOG_CSV]) = 3
    /\ last.rows[HANDOFF_LOG_CSV][1].run_id = R2Padded
    /\ last.rows[HANDOFF_LOG_CSV][2].run_id = EmptyStr
    /\ last.rows[HANDOFF_LOG_CSV][3].run_id = R1
    /\ last.split_map[HANDOFF_LOG_CSV].keep_at = <<1, 3>>
    /\ last.split_map[HANDOFF_LOG_CSV].archive_at = <<2>>

\* The number of times row r occurs in a file.
Count(rows, r) == Cardinality({i \in 1..Len(rows) : rows[i] = r})

\* The archived_rows file the last pass wrote for a live file (it writes none
\* when it archives no row of that file).
PassArchivedRows(name) ==
    IF last.split_map[name].archive = <<>> THEN <<>>
    ELSE archive[last.timestamp].archived_rows[name]

C5_Idempotent ==
    (last.op = "cleanup" /\ SplitOptions(last.args) \in last.follows) =>
        \A name \in FileNames :
            /\ last.split_map[name].archive = <<>>
            /\ last.split_map[name].keep = last.rows[name]
            /\ live[name] = last.rows[name]

\* C5 witness: a second writing pass with the options of the first, the
\* first having archived a row and kept a row.
C5_Witness ==
    /\ last.op = "cleanup"
    /\ ~last.args.dry_run
    /\ SplitOptions(last.args) \in last.follows
    /\ Len(index) = 2
    /\ index[1].run_rows_archived + index[1].request_rows_archived > 0
    /\ \E name \in FileNames : live[name] # <<>>

====
